---- MODULE Spec2Model ----
(***************************************************************************)
(* LeetSpeak voice client: the session lifecycle controller                *)
(* (LeetSpeakVoiceClient), the transport channel (WebSocketManager), the   *)
(* session manager (SessionManager) and the transcript/response tracker    *)
(* (TranscriptManager), as one state machine.                              *)
(*                                                                         *)
(* JavaScript runs handlers to completion: one action is one macrotask     *)
(* (an external call, a WebSocket event, the settling of a network         *)
(* request) together with everything it runs synchronously.  A promise     *)
(* continuation that became runnable (a microtask) runs before the next    *)
(* macrotask: the macrotask actions are guarded by ~MicrotaskPending.      *)
(*                                                                         *)
(* Text is a sequence of characters; null is NULL.                         *)
(***************************************************************************)
EXTENDS Integers, Sequences, FiniteSets, TLC

\* ------------------------------------------------------------- bounds
\* response ids the backend uses, delta events between two resets of the tracker,
\* stopVoiceChat frames, startVoiceChat calls (one socket each)
MaxResponses == 2
MaxDeltas == 3
MaxStops == 1
MaxStarts == 1
\* audio chunks handed to the audio manager
MaxChunks == 5
\* speech-started events, and advances of the clock (of half a cooldown each)
MaxSpeech == 2
MaxTicks == 2
\* messages handed to the transport
MaxFrames == 4
\* calls of the capture processor
MaxBlocks == 3
\* sockets constructed when connect() is driven directly
MaxSockets == 2
\* audio-delta events handled by the client
MaxAudioDeltas == 2
\* inbound messages handed to the transport's handleMessage
MaxMessages == 3
\* user transcripts handed to handleUserTranscript
MaxUserTranscripts == 2

NULL == 0

\* TIMING_CONFIG.BARGE_IN_COOLDOWN_MS
BargeInCooldownMs == 1200
\* AudioProcessor.bufferSize
bufferSize == 1200

ResponseIds == 1..MaxResponses
\* the frames of the stopVoiceChat calls: one more than MaxStops, for a call made
\* while an earlier one is in progress
StopIds == 1..(MaxStops + 1)
SocketIds == 1..MaxSockets
\* the text fragments a transcript delta event may carry ("" is falsy)
Deltas == {<<>>, <<"a">>, <<"b", "a">>}

VARIABLES
    \* LeetSpeakVoiceClient
    isConnected, isIntentionallyStopping, isWaitingForEvaluation,
    evaluationTriggered, shutdownResolve,
    \* observers of the client: the last status, the last broadcast state, the
    \* 'Connection lost' errors handed to onError
    status, broadcast, errors,
    \* the managers
    sessionManager, webSocketManager, transcriptManager, audioManager,
    \* the surroundings of the audio manager (decoding in progress, timers, source
    \* nodes) and what is observed of its playback
    audio,
    \* the browser's sockets (readyState of every WebSocket constructed)
    sockState,
    \* the promise returned by connect(sessionId), per socket constructed
    connectPromise,
    \* what is observed of the transport's sending
    wire,
    \* the capture worklet's processor, and what is observed of it (the samples
    \* it was fed, the frames it posted)
    audioProcessor, capture,
    \* the observer callbacks held by the client and by the transcript manager,
    \* and what the UI's observers have been handed
    callbacks, uiLog,
    \* control: the startVoiceChat call, the stopVoiceChat calls, their
    \* completion promises, the trigger-evaluation requests whose
    \* then/catch callbacks are pending (per call that sent them; under NULL
    \* those of calls that have ended)
    startPc, starts, stopPc, hasActiveResponse, promise, pendingTrigger,
    \* the backend's event stream: the response ids it has used
    created,
    \* observations (history) the properties are stated on
    hist, tlog

clientVars == <<isConnected, isIntentionallyStopping, isWaitingForEvaluation,
                evaluationTriggered, shutdownResolve>>
observerVars == <<status, broadcast, errors>>
managerVars == <<sessionManager, webSocketManager, audioManager, audio, wire, sockState,
                connectPromise>>
controlVars == <<startPc, starts, stopPc, hasActiveResponse, promise, pendingTrigger>>
backendVars == <<created>>
captureVars == <<audioProcessor, capture>>
uiVars == <<callbacks, uiLog>>
lifecycleVarsButUi == <<clientVars, observerVars, managerVars, controlVars, backendVars,
                        hist, captureVars>>
lifecycleVars == <<lifecycleVarsButUi, uiVars>>
trackerVars == <<transcriptManager, tlog>>
lifecycleVarsButWire == <<clientVars, observerVars, sessionManager, webSocketManager,
                          audioManager, audio, sockState, connectPromise, controlVars, backendVars, hist,
                          captureVars, uiVars>>
vars == <<lifecycleVars, trackerVars>>

\* ------------------------------------------------------------- text
RECURSIVE Concat(_)
Concat(ds) == IF ds = <<>> THEN <<>> ELSE Head(ds) \o Concat(Tail(ds))

MapSet(m, k, v) == [x \in (DOMAIN m) \cup {k} |-> IF x = k THEN v ELSE m[x]]

EmptyMap == [x \in {} |-> <<>>]

\* ------------------------------------------------------------- TranscriptManager
TranscriptManagerInit ==
    [currentResponse |-> <<>>,
     responseTranscripts |-> EmptyMap,
     completedResponses |-> {},
     cancelledResponses |-> {},
     activeResponseId |-> NULL,
     isCancelling |-> FALSE,
     lastBargeInTime |-> 0,
     typing |-> "none"]

\* shouldSignal without the cooldown test
shouldSignalNoCooldown(tm, nowTs) ==
    tm.activeResponseId # NULL /\ ~tm.isCancelling

\* handleSpeechStarted() returns true
shouldSignal(tm, nowTs) ==
    /\ ~(nowTs - tm.lastBargeInTime < BargeInCooldownMs)
    /\ tm.activeResponseId # NULL /\ ~tm.isCancelling

handleSpeechStarted(tm, nowTs) ==
    IF shouldSignal(tm, nowTs) THEN [tm EXCEPT !.lastBargeInTime = nowTs] ELSE tm

\* showTyping(show): the last typing message handed to onMessage
showTyping(tm, show) == [tm EXCEPT !.typing = IF show THEN "typing" ELSE "typing-hide"]

startResponse(tm, responseId) ==
    [showTyping(tm, TRUE) EXCEPT !.currentResponse = <<>>,
                                 !.isCancelling = FALSE,
                                 !.activeResponseId = responseId]

\* a faulty variant of handleResponseDelta: the delta is put in front
handleResponseDeltaPrepend(tm, delta, responseId) ==
    IF delta # <<>> /\ responseId # NULL
    THEN LET base == IF responseId \in DOMAIN tm.responseTranscripts
                     THEN tm.responseTranscripts[responseId] ELSE <<>>
             updatedTranscript == delta \o base
         IN [tm EXCEPT !.responseTranscripts = MapSet(@, responseId, updatedTranscript),
                       !.currentResponse = updatedTranscript]
    ELSE tm

handleResponseDelta(tm, delta, responseId) ==
    IF delta # <<>> /\ responseId # NULL
    THEN LET base == IF responseId \in DOMAIN tm.responseTranscripts
                     THEN tm.responseTranscripts[responseId] ELSE <<>>
             updatedTranscript == base \o delta
         IN [tm EXCEPT !.responseTranscripts = MapSet(@, responseId, updatedTranscript),
                       !.currentResponse = updatedTranscript]
    ELSE tm

\* responseTranscripts.get(responseId) || currentResponse
finalTranscript(tm, responseId) ==
    IF responseId \in DOMAIN tm.responseTranscripts
       /\ tm.responseTranscripts[responseId] # <<>>
    THEN tm.responseTranscripts[responseId]
    ELSE tm.currentResponse

\* a faulty variant of emitsAi: without the completedResponses guard
emitsAiNoDedup(tm, responseId) ==
    /\ responseId # NULL
    /\ finalTranscript(tm, responseId) # <<>>

\* whether handleResponseComplete(responseId) hands an 'ai' message to onMessage
emitsAi(tm, responseId) ==
    /\ responseId # NULL
    /\ responseId \notin tm.completedResponses
    /\ finalTranscript(tm, responseId) # <<>>

clearActive(tm, responseId) ==
    IF tm.activeResponseId = responseId THEN [tm EXCEPT !.activeResponseId = NULL] ELSE tm

handleResponseComplete(tm, responseId) ==
    IF responseId # NULL /\ responseId \notin tm.completedResponses
    THEN showTyping(clearActive([tm EXCEPT !.completedResponses = @ \cup {responseId}],
                                responseId), FALSE)
    ELSE IF responseId # NULL /\ responseId \in tm.completedResponses
    THEN showTyping(clearActive(tm, responseId), FALSE)
    ELSE tm

\* cancelResponse(responseId): the tracker after the call; cancelResponseResult its value
cancelResponseResult(tm, responseId) ==
    responseId # NULL /\ responseId \notin tm.completedResponses

cancelResponse(tm, responseId) ==
    IF cancelResponseResult(tm, responseId)
    THEN [tm EXCEPT !.cancelledResponses = @ \cup {responseId}, !.isCancelling = TRUE]
    ELSE tm

\* ------------------------------------------------------------- observer callbacks
\* a constructor parameter declared with `= null`: undefined becomes null
defaultNull(arg) == IF arg = "undefined" THEN "null" ELSE arg

\* new TranscriptManager(onMessage, onTranscript): the callbacks it keeps
TranscriptManagerNew(onMessage, onTranscript) ==
    [onMessage |-> defaultNull(onMessage), onTranscript |-> defaultNull(onTranscript)]

\* new LeetSpeakVoiceClient(): the transcript manager is constructed with the
\* bound addMessage and with the value of this.onTranscript, a property that
\* is assigned only further down in the constructor
ClientConstructed ==
    LET this == [onMessage |-> "undefined", onTranscript |-> "undefined"]
    IN [tracker |-> TranscriptManagerNew("addMessage", this.onTranscript),
        client |-> [onMessage |-> "null", onTranscript |-> "null"]]

UiLogInit == [events |-> <<>>, userCalls |-> 0]

\* this.onMessage?.('', text, type) in the transcript manager: addMessage
\* reads the client's onMessage when it is called
emitMessage(cb, events, type, text) ==
    IF cb.tracker.onMessage = "addMessage" /\ cb.client.onMessage = "ui"
    THEN Append(events, <<"message", type, text>>)
    ELSE events

\* this.onTranscript?.({type, text}) in the transcript manager
emitTranscript(cb, events, type, text) ==
    IF cb.tracker.onTranscript = "ui"
    THEN Append(events, <<"transcript", type, text>>)
    ELSE events

\* handleUserTranscript(transcript): what it hands to the observers
handleUserTranscript(cb, events, transcript) ==
    IF transcript # <<>>
    THEN emitTranscript(cb, emitMessage(cb, events, "user", transcript), "user", transcript)
    ELSE events

\* handleResponseComplete(responseId): what it hands to the observers
completeEmits(cb, events, tm, responseId) ==
    IF emitsAi(tm, responseId)
    THEN LET text == finalTranscript(tm, responseId)
         IN emitTranscript(cb, emitMessage(cb, events, "ai", text), "ai", text)
    ELSE events

\* shouldCancelResponse(responseId) that forgets the cancelled ids
shouldCancelResponseFlagOnly(tm, responseId) == tm.isCancelling

shouldCancelResponse(tm, responseId) ==
    responseId \in tm.cancelledResponses \/ tm.isCancelling

\* reset(), and the same assignments in the finalization of stopVoiceChat
resetTranscript(tm) ==
    [tm EXCEPT !.currentResponse = <<>>,
               !.responseTranscripts = EmptyMap,
               !.completedResponses = {},
               !.cancelledResponses = {},
               !.activeResponseId = NULL,
               !.isCancelling = FALSE,
               !.lastBargeInTime = 0]

\* ------------------------------------------------------------- observations of the tracker
\* per response id: the deltas handed to handleResponseDelta, the number of
\* handleResponseComplete calls, the number of 'ai' messages they emitted, whether
\* the first completion found a non-empty transcript; and, kept across resets:
\*   nowTs        Date.now(); the time origin lies at least a cooldown back
\*   speechCalls  the handleSpeechStarted calls so far
\*   signals      the timestamps of those that returned true
\*   resetAt      how many of these came before the last reset
TlogInit ==
    [arrived |-> [i \in ResponseIds |-> <<>>],
     completeCalls |-> [i \in ResponseIds |-> 0],
     aiCount |-> [i \in ResponseIds |-> 0],
     firstNonEmpty |-> [i \in ResponseIds |-> FALSE],
     nowTs |-> BargeInCooldownMs,
     speechCalls |-> 0,
     signals |-> <<>>,
     resetAt |-> 0]

logDelta(l, delta, id) == [l EXCEPT !.arrived[id] = Append(@, delta)]

RECURSIVE SumLen(_, _)
SumLen(f, S) == IF S = {} THEN 0
                ELSE LET x == CHOOSE y \in S : TRUE IN Len(f[x]) + SumLen(f, S \ {x})

\* the delta events handled since the tracker was last reset
deltaCount(l) == SumLen(l.arrived, ResponseIds)

logComplete(l, tm, id) ==
    [l EXCEPT !.completeCalls[id] = IF @ < 2 THEN @ + 1 ELSE @,
              !.aiCount[id] = IF emitsAi(tm, id) THEN @ + 1 ELSE @,
              !.firstNonEmpty[id] = IF l.completeCalls[id] = 0
                                    THEN finalTranscript(tm, id) # <<>> ELSE @]

logReset(l) ==
    [TlogInit EXCEPT !.nowTs = l.nowTs,
                     !.speechCalls = l.speechCalls,
                     !.signals = l.signals,
                     !.resetAt = Len(l.signals)]

logSpeech(l, tm) ==
    [l EXCEPT !.speechCalls = @ + 1,
              !.signals = IF shouldSignal(tm, l.nowTs) THEN Append(@, l.nowTs) ELSE @]

\* ------------------------------------------------------------- the tracker driven directly
TStartResponse(id) ==
    /\ transcriptManager' = startResponse(transcriptManager, id)
    /\ UNCHANGED <<lifecycleVars, tlog>>

THandleResponseDelta(delta, id) ==
    /\ deltaCount(tlog) < MaxDeltas
    /\ transcriptManager' = handleResponseDelta(transcriptManager, delta, id)
    /\ tlog' = logDelta(tlog, delta, id)
    /\ UNCHANGED lifecycleVars

THandleResponseComplete(id) ==
    /\ transcriptManager' = handleResponseComplete(transcriptManager, id)
    /\ tlog' = logComplete(tlog, transcriptManager, id)
    /\ uiLog' = [uiLog EXCEPT !.events = completeEmits(callbacks, @, transcriptManager, id)]
    /\ UNCHANGED <<lifecycleVarsButUi, callbacks>>

\* the UI registers its observers on the client it has constructed
UiRegister ==
    /\ callbacks.client.onTranscript # "ui"
    /\ callbacks' = [callbacks EXCEPT !.client = [onMessage |-> "ui", onTranscript |-> "ui"]]
    /\ UNCHANGED <<lifecycleVarsButUi, uiLog, trackerVars>>

THandleUserTranscript(transcript) ==
    /\ uiLog.userCalls < MaxUserTranscripts
    /\ uiLog' = [events |-> handleUserTranscript(callbacks, uiLog.events, transcript),
                 userCalls |-> uiLog.userCalls + 1]
    /\ UNCHANGED <<lifecycleVarsButUi, callbacks, trackerVars>>

TCancelResponse(id) ==
    /\ transcriptManager' = cancelResponse(transcriptManager, id)
    /\ UNCHANGED <<lifecycleVars, tlog>>

TReset ==
    /\ transcriptManager' = resetTranscript(transcriptManager)
    /\ tlog' = logReset(tlog)
    /\ UNCHANGED lifecycleVars

\* a speech-started event
TSpeechStarted ==
    /\ tlog.speechCalls < MaxSpeech
    /\ transcriptManager' = handleSpeechStarted(transcriptManager, tlog.nowTs)
    /\ tlog' = logSpeech(tlog, transcriptManager)
    /\ UNCHANGED lifecycleVars

\* time passes
TTick ==
    /\ tlog.nowTs < BargeInCooldownMs + MaxTicks * (BargeInCooldownMs \div 2)
    /\ tlog' = [tlog EXCEPT !.nowTs = @ + BargeInCooldownMs \div 2]
    /\ UNCHANGED <<lifecycleVars, transcriptManager>>

\* ------------------------------------------------------------- AudioManager
\* a chunk of audio data is named by the order of its arrival; the buffer decoded
\* from it and the source node that plays the buffer carry the same name
AudioManagerInit ==
    [audioContext |-> FALSE,
     mediaStream |-> FALSE,
     audioQueue |-> <<>>,
     audioChunks |-> <<>>,
     isRecording |-> FALSE,
     isPlaying |-> FALSE,
     isProcessingAudio |-> FALSE,
     currentAudioSource |-> NULL]

\* what surrounds the manager, and what is observed of it:
\*   chunks    the chunks handed to addAudioChunk so far
\*   batches   the playAudioChunks calls in progress: the chunks each has still to
\*             decode (it awaits the decoding of the first)
\*   timers    pending setTimeout(processAudioBuffer) callbacks
\*   playing   the source nodes that are playing
\*   stopped   the source nodes stopped by stop() or by the closing of their
\*             context, whose onended has not fired yet
\*   epoch     what emptied the queues last: "clean" (nothing yet), "interrupted",
\*             "cleared", "stopped", "restarted" (initialize() after stopAll())
\*   enqueued  the buffers pushed on audioQueue since then, in order
\*   started   the sources started since then, in order
\*   cut       the source interrupt() stopped, when it was that (NULL if none)
\*   leftover  the last audio event was the audio-done signal, and the chunks
\*             it found in the chunk buffer are still there
\*   owner     the response_id of the audio-delta event that brought each chunk
\*             (of the chunks that came with such an event)
AudioInit ==
    [chunks |-> 0,
     batches |-> <<>>,
     timers |-> 0,
     playing |-> {},
     stopped |-> {},
     epoch |-> "clean",
     enqueued |-> <<>>,
     started |-> <<>>,
     cut |-> NULL,
     leftover |-> FALSE,
     owner |-> <<>>]

\* the manager and its surroundings as one value
AudioPair(am, au) == [am |-> am, au |-> au]

newEpoch(P, what) ==
    [P.au EXCEPT !.epoch = what,
                 !.enqueued = <<>>,
                 !.started = <<>>,
                 !.leftover = FALSE,
                 !.cut = IF what = "interrupted" /\ P.am.currentAudioSource \in P.au.playing
                         THEN P.am.currentAudioSource ELSE NULL]

\* playQueue() without its isPlaying guard
playQueueOverlap(P) ==
    IF P.am.audioQueue = <<>> THEN P
    ELSE LET buffer == Head(P.am.audioQueue)
         IN IF P.am.audioContext
            THEN AudioPair([P.am EXCEPT !.audioQueue = Tail(@),
                                        !.isPlaying = TRUE,
                                        !.currentAudioSource = buffer],
                           [P.au EXCEPT !.playing = @ \cup {buffer},
                                        !.started = Append(@, buffer)])
            ELSE AudioPair([P.am EXCEPT !.audioQueue = Tail(@),
                                        !.isPlaying = FALSE,
                                        !.currentAudioSource = NULL],
                           P.au)

\* playQueue(): without an audio context createBufferSource throws, the catch
\* block clears the flag and the buffer taken from the queue is lost
playQueue(P) ==
    IF P.am.isPlaying \/ P.am.audioQueue = <<>> THEN P
    ELSE LET buffer == Head(P.am.audioQueue)
         IN IF P.am.audioContext
            THEN AudioPair([P.am EXCEPT !.audioQueue = Tail(@),
                                        !.isPlaying = TRUE,
                                        !.currentAudioSource = buffer],
                           [P.au EXCEPT !.playing = @ \cup {buffer},
                                        !.started = Append(@, buffer)])
            ELSE AudioPair([P.am EXCEPT !.audioQueue = Tail(@),
                                        !.isPlaying = FALSE,
                                        !.currentAudioSource = NULL],
                           P.au)

\* source.onended
onended(P, source) ==
    playQueue(AudioPair([P.am EXCEPT !.isPlaying = FALSE, !.currentAudioSource = NULL],
                        [P.au EXCEPT !.playing = @ \ {source}, !.stopped = @ \ {source}]))

\* the then-callback of processAudioBuffer, run when playAudioChunks has returned
processed(P) ==
    AudioPair([P.am EXCEPT !.isProcessingAudio = FALSE],
              [P.au EXCEPT !.timers = IF P.am.audioChunks # <<>> THEN @ + 1 ELSE @])

minChunks(isComplete) == IF isComplete THEN 1 ELSE 5

\* processAudioBuffer(isComplete): playAudioChunks returns at once without an
\* audio context, and begins to decode the first chunk otherwise
processAudioBuffer(P, isComplete) ==
    IF P.am.isProcessingAudio \/ Len(P.am.audioChunks) < minChunks(isComplete) THEN P
    ELSE LET chunksToProcess == P.am.audioChunks
             am == [P.am EXCEPT !.audioChunks = <<>>, !.isProcessingAudio = TRUE]
             au == [P.au EXCEPT !.leftover = FALSE]
         IN IF am.audioContext
            THEN AudioPair(am, [au EXCEPT !.batches = Append(@, chunksToProcess)])
            ELSE processed(AudioPair(am, au))

addAudioChunk(P) ==
    LET chunk == P.au.chunks + 1
    IN processAudioBuffer(AudioPair([P.am EXCEPT !.audioChunks = Append(@, chunk)],
                                    [P.au EXCEPT !.chunks = chunk, !.leftover = FALSE]),
                          FALSE)

finalizeAudio(P) ==
    processAudioBuffer(AudioPair(P.am, [P.au EXCEPT !.leftover = P.am.audioChunks # <<>>]),
                       TRUE)

RemoveAt(seq, i) == SubSeq(seq, 1, i - 1) \o SubSeq(seq, i + 1, Len(seq))

\* playAudioChunks goes on after the decoding of the first chunk of batch i:
\* the buffer, if there is one, is pushed; the next chunk is decoded, or, when
\* none is left (without an audio context every one left fails at once),
\* playQueue() is called and the call returns
decoded(P, i, ok) ==
    LET batch == P.au.batches[i]
        buffer == Head(batch)
        am == IF ok THEN [P.am EXCEPT !.audioQueue = Append(@, buffer)] ELSE P.am
        au == IF ok THEN [P.au EXCEPT !.enqueued = Append(@, buffer)] ELSE P.au
    IN IF Tail(batch) # <<>> /\ am.audioContext
       THEN AudioPair(am, [au EXCEPT !.batches[i] = Tail(batch)])
       ELSE processed(playQueue(AudioPair(am, [au EXCEPT !.batches = RemoveAt(@, i)])))

\* currentAudioSource.stop()
stopSource(au, source) ==
    IF source = NULL THEN au
    ELSE [au EXCEPT !.playing = @ \ {source},
                    !.stopped = IF source \in au.playing THEN @ \cup {source} ELSE @]

clearQueues(P) ==
    AudioPair([P.am EXCEPT !.audioChunks = <<>>, !.audioQueue = <<>>],
              newEpoch(P, "cleared"))

\* interrupt() without its clearQueues() call
interruptKeepsQueues(P) ==
    AudioPair([P.am EXCEPT !.currentAudioSource = NULL,
                           !.isProcessingAudio = FALSE],
              stopSource(newEpoch(P, "interrupted"), P.am.currentAudioSource))

interrupt(P) ==
    AudioPair([P.am EXCEPT !.currentAudioSource = NULL,
                           !.audioChunks = <<>>,
                           !.audioQueue = <<>>,
                           !.isProcessingAudio = FALSE],
              stopSource(newEpoch(P, "interrupted"), P.am.currentAudioSource))

\* stopAll() that leaves the audio context open
stopAllKeepsContext(P) ==
    AudioPair([P.am EXCEPT !.isRecording = FALSE,
                           !.isPlaying = FALSE,
                           !.isProcessingAudio = FALSE,
                           !.currentAudioSource = NULL,
                           !.mediaStream = FALSE,
                           !.audioChunks = <<>>,
                           !.audioQueue = <<>>],
              stopSource(newEpoch(P, "stopped"), P.am.currentAudioSource))

\* stopAll(): audioContext.close() silences every source of the context
stopAll(P) ==
    AudioPair([P.am EXCEPT !.isRecording = FALSE,
                           !.isPlaying = FALSE,
                           !.isProcessingAudio = FALSE,
                           !.currentAudioSource = NULL,
                           !.mediaStream = FALSE,
                           !.audioContext = FALSE,
                           !.audioChunks = <<>>,
                           !.audioQueue = <<>>],
              LET au == stopSource(newEpoch(P, "stopped"), P.am.currentAudioSource)
              IN [au EXCEPT !.playing = {}, !.stopped = @ \cup au.playing])

\* initialize() settles: "ok"; "noMic" (getUserMedia rejected, nothing acquired);
\* "noWorklet" (the stream and the context are acquired, then the worklet fails
\* to load and the error is thrown)
initialize(P, outcome) ==
    IF outcome = "noMic" THEN P
    ELSE AudioPair([P.am EXCEPT !.mediaStream = TRUE,
                                !.audioContext = TRUE,
                                !.isRecording = IF outcome = "ok" THEN TRUE ELSE @],
                   IF P.au.epoch = "stopped" THEN newEpoch(P, "restarted") ELSE P.au)

\* ------------------------------------------------------------- AudioProcessor (capture worklet)
\* A sample is written in quarters: the number s stands for the value s / One.
One == 4

Max(a, b) == IF a >= b THEN a ELSE b
Min(a, b) == IF a <= b THEN a ELSE b

\* the quotient rounded towards zero (the conversion of a number to an integer)
TruncDiv(a, b) == IF a >= 0 THEN a \div b ELSE -((-a) \div b)

\* storing an integer in an Int16Array element
ToInt16(x) == ((x + 32768) % 65536) - 32768

\* the conversion of one sample with no clamping
floatToInt16NoClamp(sample) ==
    ToInt16(TruncDiv(IF sample < 0 THEN sample * 32768 ELSE sample * 32767, One))

\* the conversion of one sample: clamp to [-1, 1], scale by 0x8000 below zero and
\* by 0x7FFF otherwise, store in the Int16Array
floatToInt16(sample) ==
    LET clamped == Max(-One, Min(One, sample))
    IN ToInt16(TruncDiv(IF clamped < 0 THEN clamped * 32768 ELSE clamped * 32767, One))

\* the Float32Array of bufferSize zeros is kept as the elements written so far
\* (the rest are zero)
AudioProcessorInit == [buffer |-> <<>>, bufferIndex |-> 0]

\* this.buffer[i] = sample, for the samples of run in turn, from index i on
store(buffer, i, run) ==
    SubSeq(buffer, 1, i) \o run \o SubSeq(buffer, i + Len(run) + 1, Len(buffer))

\* the loop of process() from the i-th sample of the input channel on, taken a
\* run of samples at a time: the samples up to the one that fills the buffer,
\* or all that are left; S holds the processor and the frames posted so far
RECURSIVE processFrom(_, _, _)
processFrom(S, inputChannel, i) ==
    IF i > Len(inputChannel) THEN S
    ELSE LET n == Min(Len(inputChannel) - i + 1, bufferSize - S.ap.bufferIndex)
             buffer == store(S.ap.buffer, S.ap.bufferIndex,
                             SubSeq(inputChannel, i, i + n - 1))
             bufferIndex == S.ap.bufferIndex + n
         IN IF bufferIndex >= bufferSize
            THEN processFrom(
                     [ap |-> [buffer |-> buffer, bufferIndex |-> 0],
                      posted |-> Append(S.posted,
                                        [j \in 1..bufferSize |-> floatToInt16(buffer[j])])],
                     inputChannel, i + n)
            ELSE processFrom(
                     [ap |-> [buffer |-> buffer, bufferIndex |-> bufferIndex],
                      posted |-> S.posted],
                     inputChannel, i + n)

\* process(inputs, outputs, parameters); hasInput: inputs[0] and inputs[0][0] exist
process(S, hasInput, inputChannel) ==
    IF hasInput THEN processFrom(S, inputChannel, 1) ELSE S

\* what is observed of the processor:
\*   fed     the samples of the input channels it was called with, in order
\*   frames  the buffers it posted, in order
\*   blocks  the calls of process() so far
CaptureInit == [fed |-> <<>>, frames |-> <<>>, blocks |-> 0]

\* the input blocks: a length and a waveform repeated over it (values beyond
\* [-1, 1] included)
BlockLens == {128, 1100, 2500}
Waves == << <<4, -4, 0, 1, -3>>, <<8, -8, 5, -5, 2, -1, 3>> >>
Block(len, w) == [i \in 1..len |-> Waves[w][((i - 1) % Len(Waves[w])) + 1]]

\* ------------------------------------------------------------- WebSocketManager: sending
\* send(message) with no test of readyState
sendUnchecked(wsm, ss) == wsm.websocket # NULL

\* send(message) transmits the message and returns true
send(wsm, ss) == wsm.websocket # NULL /\ ss[wsm.websocket] = "open"

isWebSocketConnected(wsm, ss) ==
    wsm.isConnected /\ wsm.websocket # NULL /\ ss[wsm.websocket] = "open"

\* what is observed of the sending:
\*   frames    the messages produced so far (each is named by its number)
\*   sent      the messages handed to WebSocket.send, in order, each with its socket
\*   returned  what the last call of send returned ("none": it was not called)
\*   cancels   the response-cancel messages among them, each with its response_id
\* and of its receiving:
\*   received    the data of the message events handed to handleMessage, in order
\*   dispatched  the events handed to onMessage, in order
\*   escaped     an exception has left handleMessage
WireInit ==
    [frames |-> 0, sent |-> <<>>, returned |-> "none", cancels |-> {},
     received |-> <<>>, dispatched |-> <<>>, escaped |-> FALSE]

\* the message produced next
NextFrame(w) == w.frames + 1

\* send(message) is called with the next message
logSend(w, wsm, ss) ==
    [w EXCEPT !.frames = NextFrame(w),
              !.sent = IF send(wsm, ss) THEN Append(@, <<wsm.websocket, NextFrame(w)>>)
                       ELSE @,
              !.returned = IF send(wsm, ss) THEN "true" ELSE "false"]

\* WebSocketManager.cancelResponse(responseId): send is called with a
\* response.cancel message
logCancel(w, wsm, ss, responseId) ==
    [logSend(w, wsm, ss) EXCEPT !.cancels = @ \cup {<<NextFrame(w), responseId>>}]

\* the next message is produced and send is not called
logNoSend(w) == [w EXCEPT !.frames = NextFrame(w), !.returned = "none"]

\* ------------------------------------------------------------- WebSocketManager: receiving
\* The data of a message event is a sequence of tokens.  The backend's events
\* are objects with a type; data that is cut short, empty, or not an object
\* is what JSON.parse throws on.
Payloads ==
    {<<"{", "type", ":", "response.created", "}">>,
     <<"{", "type", ":", "speech_started", "}">>,
     <<"{", "type", ":">>,
     <<"speech_started">>,
     <<>>}

\* JSON.parse(data): the value, or a SyntaxError
jsonParse(data) ==
    IF /\ Len(data) = 5
       /\ data[1] = "{" /\ data[3] = ":" /\ data[5] = "}"
       /\ data[2] \notin {"{", "}", ":"} /\ data[4] \notin {"{", "}", ":"}
    THEN [ok |-> TRUE, value |-> [key |-> data[2], val |-> data[4]]]
    ELSE [ok |-> FALSE, value |-> NULL]

\* handleMessage(data) with no try/catch around the parsing
handleMessageNoCatch(w, data) ==
    LET parsed == jsonParse(data)
    IN [w EXCEPT !.received = Append(@, data),
                 !.dispatched = IF parsed.ok THEN Append(@, parsed.value) ELSE @,
                 !.escaped = @ \/ ~parsed.ok]

\* handleMessage(data): parse, hand the event to onMessage; log what is thrown
handleMessage(w, data) ==
    LET parsed == jsonParse(data)
    IN [w EXCEPT !.received = Append(@, data),
                 !.dispatched = IF parsed.ok THEN Append(@, parsed.value) ELSE @]

\* ------------------------------------------------------------- observations of the controller
\* per stopVoiceChat call k:
\*   waitedId      the response that was active when the call was made
\*   activeDone    a transcript-done event of waitedId was handled during the call
\*   triggers      trigger-evaluation requests issued for the call
\*   evalReturned  such a request has settled (returned or failed)
\*   evalCreated   the responses created after the request was issued
\*   evalRespDone  a transcript-done event of one of those was handled
\*   trigFailed    such a request failed with a network error
\*   resolveCalls  invocations of the resolver of the call's completion promise
\*   log           the finalization steps the call has taken, in order
\*   calledAfter   what the call was made after: "failedStart" (it is the first
\*                 stopVoiceChat call, and startVoiceChat had failed), or
\*                 "other" (also from the next startVoiceChat on, and when the
\*                 call has ended)
\* and for the client: nullResolve (this.shutdownResolve() was evaluated while it
\* was null, during the stopVoiceChat call in progress), closeNotifs (the
\* onConnectionChange(DISCONNECTED) deliveries made by the last onclose event),
\* involuntary (that event came while the session was active and no stop was in
\* progress), startContext (the context in the body of the start request in flight)
HistInit ==
    [waitedId |-> [k \in StopIds |-> NULL],
     activeDone |-> [k \in StopIds |-> FALSE],
     triggers |-> [k \in StopIds |-> 0],
     evalReturned |-> [k \in StopIds |-> FALSE],
     evalCreated |-> [k \in StopIds |-> {}],
     evalRespDone |-> [k \in StopIds |-> FALSE],
     trigFailed |-> [k \in StopIds |-> FALSE],
     resolveCalls |-> [k \in StopIds |-> 0],
     log |-> [k \in StopIds |-> <<>>],
     nullResolve |-> FALSE,
     closeNotifs |-> 0,
     involuntary |-> FALSE,
     startContext |-> "none",
     calledAfter |-> [k \in StopIds |-> "other"]]

Init ==
    /\ isConnected = FALSE
    /\ isIntentionallyStopping = FALSE
    /\ isWaitingForEvaluation = FALSE
    /\ evaluationTriggered = FALSE
    /\ shutdownResolve = NULL
    /\ status = "none"
    /\ broadcast = "none"
    /\ errors = {}
    /\ sessionManager = [sessionId |-> NULL, sessionActive |-> FALSE]
    /\ webSocketManager = [websocket |-> NULL, isConnected |-> FALSE]
    /\ transcriptManager = TranscriptManagerInit
    /\ audioManager = AudioManagerInit
    /\ audio = AudioInit
    /\ sockState = [s \in SocketIds |-> "none"]
    /\ connectPromise = [s \in SocketIds |-> "none"]
    /\ wire = WireInit
    /\ audioProcessor = AudioProcessorInit
    /\ capture = CaptureInit
    /\ callbacks = ClientConstructed
    /\ uiLog = UiLogInit
    /\ startPc = "idle"
    /\ starts = 0
    /\ stopPc = [k \in StopIds |-> "idle"]
    /\ hasActiveResponse = [k \in StopIds |-> FALSE]
    /\ promise = [k \in StopIds |-> "none"]
    /\ pendingTrigger = [k \in StopIds \cup {NULL} |-> 0]
    /\ created = {}
    /\ hist = HistInit
    /\ tlog = TlogInit

\* a continuation that is runnable now: stopVoiceChat awaiting a completion
\* promise that is resolved
MicrotaskPending == \E k \in StopIds : stopPc[k] = "wait" /\ promise[k] = "resolved"

\* ------------------------------------------------------------- resolver
\* this.shutdownResolve(): resolves the promise of the call that installed it;
\* evaluated while null it throws a TypeError instead
resolvePromise(p, r) == IF r # NULL THEN [p EXCEPT ![r] = "resolved"] ELSE p

logResolve(h, r) ==
    IF r # NULL THEN [h EXCEPT !.resolveCalls[r] = @ + 1]
    ELSE [h EXCEPT !.nullResolve = TRUE]

\* ------------------------------------------------------------- WebSocketManager
\* resolve() and reject() of the promise connect(sessionId) returned, called
\* by the socket's onopen and onerror: a variant in which the last call wins
settleLastWins(p, s, outcome) == [p EXCEPT ![s] = outcome]

\* resolve() and reject() of the promise connect(sessionId) returned: the first
\* call settles it, the later ones do nothing
settle(p, s, outcome) == IF p[s] = "pending" THEN [p EXCEPT ![s] = outcome] ELSE p

\* disconnect(): close() on the handle, if any, and clear it
closeSocket(ss, ws) ==
    IF ws = NULL THEN ss
    ELSE [ss EXCEPT ![ws] = IF @ = "connecting" THEN "closingUnopened"
                            ELSE IF @ = "open" THEN "closing" ELSE @]

\* disconnect() that leaves the handle in place
disconnectKeepsHandle(wsm) == [wsm EXCEPT !.isConnected = FALSE]

disconnect(wsm) == [websocket |-> NULL, isConnected |-> FALSE]

\* the deliveries of onConnectionChange(DISCONNECTED) one onclose event makes:
\* one by the onclose handler, one by WebSocketManager.handleDisconnection
oncloseNotifications == 2

\* LeetSpeakVoiceClient.handleDisconnection: what it would do if it were called
\* (nothing in the client or in WebSocketManager calls it)
handleDisconnectionActs(sm, stopping) == sm.sessionActive /\ ~stopping

\* ------------------------------------------------------------- startVoiceChat
\* the id the backend gives the session
SessionId == 1

\* new WebSocket(wsUrl): every call of startVoiceChat constructs at most one socket
NewSocket == starts

StartFailed ==
    /\ status' = "error"
    /\ startPc' = "idle"

StartVoiceChat ==
    /\ ~MicrotaskPending
    /\ startPc = "idle"
    /\ starts < MaxStarts
    /\ starts' = starts + 1
    /\ status' = "connecting"
    /\ startPc' = "createSession"
    /\ hist' = [hist EXCEPT !.calledAfter = [k \in StopIds |-> "other"]]
    /\ UNCHANGED <<clientVars, broadcast, errors, managerVars, stopPc, hasActiveResponse,
                   promise, pendingTrigger, backendVars, captureVars, uiVars, transcriptManager, tlog>>

\* POST /api/sessions settles
CreateSessionReturn(ok) ==
    /\ ~MicrotaskPending
    /\ startPc = "createSession"
    /\ IF ok
       THEN /\ sessionManager' = [sessionManager EXCEPT !.sessionId = SessionId]
            /\ startPc' = "audioInit"
            /\ UNCHANGED status
       ELSE /\ StartFailed
            /\ UNCHANGED sessionManager
    /\ UNCHANGED <<starts, clientVars, broadcast, errors, webSocketManager, audioManager, audio, wire, sockState, connectPromise,
                   stopPc, hasActiveResponse, promise, pendingTrigger,
                   backendVars, captureVars, uiVars, hist, transcriptManager, tlog>>

\* a faulty variant of AudioInitReturn: connect() is called and not awaited
AudioInitReturnNoAwait(outcome) ==
    /\ ~MicrotaskPending
    /\ startPc = "audioInit"
    /\ LET P == initialize(AudioPair(audioManager, audio), outcome)
       IN audioManager' = P.am /\ audio' = P.au
    /\ IF outcome = "ok"
       THEN /\ webSocketManager' = [webSocketManager EXCEPT !.websocket = NewSocket]
            /\ sockState' = [sockState EXCEPT ![NewSocket] = "connecting"]
            /\ connectPromise' = [connectPromise EXCEPT ![NewSocket] = "pending"]
            /\ startPc' = "context"
            /\ UNCHANGED status
       ELSE /\ StartFailed
            /\ UNCHANGED <<webSocketManager, sockState, connectPromise>>
    /\ UNCHANGED <<starts, clientVars, broadcast, errors, sessionManager, wire, stopPc,
                   hasActiveResponse, promise, pendingTrigger, backendVars, captureVars, uiVars, hist,
                   transcriptManager, tlog>>

\* audioManager.initialize() settles; on success connect() constructs the socket
AudioInitReturn(outcome) ==
    /\ ~MicrotaskPending
    /\ startPc = "audioInit"
    /\ LET P == initialize(AudioPair(audioManager, audio), outcome)
       IN audioManager' = P.am /\ audio' = P.au
    /\ IF outcome = "ok"
       THEN /\ webSocketManager' = [webSocketManager EXCEPT !.websocket = NewSocket]
            /\ sockState' = [sockState EXCEPT ![NewSocket] = "connecting"]
            /\ connectPromise' = [connectPromise EXCEPT ![NewSocket] = "pending"]
            /\ startPc' = "connect"
            /\ UNCHANGED status
       ELSE /\ StartFailed
            /\ UNCHANGED <<webSocketManager, sockState, connectPromise>>
    /\ UNCHANGED <<starts, clientVars, broadcast, errors, sessionManager, wire, stopPc,
                   hasActiveResponse, promise, pendingTrigger, backendVars, captureVars, uiVars, hist,
                   transcriptManager, tlog>>

\* websocket.onopen
WsOnOpen(s) ==
    /\ ~MicrotaskPending
    /\ sockState[s] = "connecting"
    /\ sockState' = [sockState EXCEPT ![s] = "open"]
    /\ connectPromise' = settle(connectPromise, s, "resolved")
    /\ webSocketManager' = [webSocketManager EXCEPT !.isConnected = TRUE]
    /\ isConnected' = TRUE
    /\ broadcast' = "connected"
    /\ startPc' = IF startPc = "connect" THEN "context" ELSE startPc
    /\ UNCHANGED <<starts, isIntentionallyStopping, isWaitingForEvaluation, evaluationTriggered,
                   shutdownResolve, status, errors, sessionManager, audioManager, audio, wire,
                   stopPc, hasActiveResponse, promise, pendingTrigger, backendVars, captureVars, uiVars, hist,
                   transcriptManager, tlog>>

\* what one onclose event does to the history
logClose(h) ==
    [h EXCEPT !.closeNotifs = oncloseNotifications,
              !.involuntary = sessionManager.sessionActive /\ ~isIntentionallyStopping]

\* websocket.onclose of a socket that was open: the backend or the network closed the
\* connection, or the closing handshake of disconnect() ended; when the connection
\* was lost to an error, websocket.onerror has called reject() just before
WsOnClose(s) ==
    /\ ~MicrotaskPending
    /\ sockState[s] \in {"open", "closing"}
    /\ sockState' = [sockState EXCEPT ![s] = "closed"]
    /\ \E error \in BOOLEAN :
           connectPromise' = IF error THEN settle(connectPromise, s, "rejected")
                             ELSE connectPromise
    /\ webSocketManager' = [webSocketManager EXCEPT !.isConnected = FALSE]
    /\ isConnected' = FALSE
    /\ broadcast' = "disconnected"
    /\ hist' = logClose(hist)
    /\ UNCHANGED <<isIntentionallyStopping, isWaitingForEvaluation, evaluationTriggered,
                   shutdownResolve, status, errors, sessionManager, audioManager, audio, wire, controlVars,
                   backendVars, captureVars, uiVars, transcriptManager, tlog>>

\* the connection fails before it opens: websocket.onerror rejects connect(), the
\* catch of startVoiceChat runs, then websocket.onclose
WsOnErrorClose(s) ==
    /\ ~MicrotaskPending
    /\ sockState[s] \in {"connecting", "closingUnopened"}
    /\ sockState' = [sockState EXCEPT ![s] = "closed"]
    /\ connectPromise' = settle(connectPromise, s, "rejected")
    /\ webSocketManager' = [webSocketManager EXCEPT !.isConnected = FALSE]
    /\ isConnected' = FALSE
    /\ broadcast' = "disconnected"
    /\ hist' = logClose(hist)
    /\ IF startPc = "connect"
       THEN StartFailed
       ELSE UNCHANGED <<status, startPc>>
    /\ UNCHANGED <<starts, isIntentionallyStopping, isWaitingForEvaluation, evaluationTriggered,
                   shutdownResolve, errors, sessionManager, audioManager, audio, wire, stopPc,
                   hasActiveResponse, promise, pendingTrigger, backendVars, captureVars, uiVars,
                   transcriptManager, tlog>>

\* the ways getLeetCodeContext() can go: the content script answers with the
\* problem data, or with nothing; the active tab is not a LeetCode page; the
\* message fails (chrome.runtime.lastError); chrome.tabs.query rejects or the tab
\* has no url
ContextOutcomes == {"response", "noResponse", "notLeetCode", "lastError", "queryThrows"}

\* a faulty variant of getLeetCodeContext without its catch block
getLeetCodeContextThrows(outcome) ==
    CASE outcome = "response" -> "context"
      [] outcome = "noResponse" -> "undefined"
      [] outcome = "notLeetCode" -> "null"
      [] OTHER -> "throws"

\* what getLeetCodeContext() returns
getLeetCodeContext(outcome) ==
    CASE outcome = "response" -> "context"
      [] outcome = "noResponse" -> "undefined"
      [] OTHER -> "null"

\* startSession(config, context = null): the context put in the request body
requestContext(context) == IF context = "undefined" THEN "null" ELSE context

\* getLeetCodeContext() settles; startSession throws without a session id and
\* sends POST /api/sessions/{id}/start otherwise
ContextReturn(outcome) ==
    /\ ~MicrotaskPending
    /\ startPc = "context"
    /\ IF getLeetCodeContext(outcome) = "throws" \/ sessionManager.sessionId = NULL
       THEN StartFailed /\ UNCHANGED hist
       ELSE /\ startPc' = "startSession"
            /\ hist' = [hist EXCEPT
                           !.startContext = requestContext(getLeetCodeContext(outcome))]
            /\ UNCHANGED status
    /\ UNCHANGED <<starts, clientVars, broadcast, errors, managerVars, stopPc,
                   hasActiveResponse, promise, pendingTrigger, backendVars, captureVars, uiVars,
                   transcriptManager, tlog>>

\* the start request settles: "ok", "badJson" (ok, body unreadable), "fail"
StartSessionReturn(outcome) ==
    /\ ~MicrotaskPending
    /\ startPc = "startSession"
    /\ sessionManager' = [sessionManager EXCEPT
                             !.sessionActive = IF outcome = "fail" THEN @ ELSE TRUE]
    /\ hist' = [hist EXCEPT !.startContext = "none"]
    /\ IF outcome = "ok"
       THEN /\ broadcast' = "sessionActive"
            /\ status' = "connected"
            /\ startPc' = "idle"
       ELSE /\ StartFailed
            /\ UNCHANGED broadcast
    /\ UNCHANGED <<starts, clientVars, errors, webSocketManager, audioManager, audio, wire, sockState, connectPromise,
                   stopPc, hasActiveResponse, promise, pendingTrigger, backendVars, captureVars, uiVars,
                   transcriptManager, tlog>>

\* ------------------------------------------------------------- handleBackendMessage
\* a message is delivered by the onmessage of a socket that is open
Delivering ==
    /\ ~MicrotaskPending
    /\ \E s \in SocketIds : sockState[s] = "open"

\* RESPONSE_CREATED: startResponse, clearQueues.  The backend gives every response
\* a fresh id; the ids are named in the order the responses are created
ResponseCreated(id) ==
    /\ Delivering
    /\ id \notin created
    /\ \A j \in ResponseIds : j < id => j \in created
    /\ created' = created \cup {id}
    /\ transcriptManager' = startResponse(transcriptManager, id)
    /\ hist' = [hist EXCEPT !.evalCreated =
                   [k \in StopIds |-> IF stopPc[k] \in {"fetch", "wait"} /\ hist.triggers[k] > 0
                                      THEN @[k] \cup {id} ELSE @[k]]]
    /\ LET P == clearQueues(AudioPair(audioManager, audio))
       IN audioManager' = P.am /\ audio' = P.au
    /\ UNCHANGED <<clientVars, observerVars, sessionManager, webSocketManager, sockState,
                   connectPromise, wire, captureVars, uiVars, controlVars, tlog>>

\* the shutdown branch of RESPONSE_AUDIO_TRANSCRIPT_DONE, after
\* handleResponseComplete left the tracker as tm:
\*   "trigger"  send trigger-evaluation,  "resolve"  release the wait,  "none"
\* (doneBranchRetrigger: a faulty variant that ignores evaluationTriggered)
doneBranchRetrigger(tm) ==
    IF isWaitingForEvaluation /\ shutdownResolve # NULL
    THEN IF tm.activeResponseId = NULL /\ ~evaluationTriggered THEN "trigger"
         ELSE IF tm.activeResponseId = NULL THEN "trigger"
         ELSE "none"
    ELSE "none"

doneBranch(tm) ==
    IF isWaitingForEvaluation /\ shutdownResolve # NULL
    THEN IF tm.activeResponseId = NULL /\ ~evaluationTriggered THEN "trigger"
         ELSE IF tm.activeResponseId = NULL /\ evaluationTriggered THEN "resolve"
         ELSE "none"
    ELSE "none"

logDone(h, id, branch) ==
    LET k == shutdownResolve
        h1 == IF k = NULL THEN h
              ELSE [h EXCEPT !.activeDone[k] = @ \/ (id = h.waitedId[k]),
                             !.evalRespDone[k] = @ \/ (id \in h.evalCreated[k])]
    IN IF branch = "trigger" THEN [h1 EXCEPT !.triggers[k] = @ + 1]
       ELSE IF branch = "resolve" THEN logResolve(h1, k)
       ELSE h1

\* RESPONSE_AUDIO_TRANSCRIPT_DONE
TranscriptDone(id) ==
    /\ Delivering
    /\ id \in created
    /\ LET tm == handleResponseComplete(transcriptManager, id)
           branch == doneBranch(tm)
       IN /\ transcriptManager' = tm
          /\ uiLog' = [uiLog EXCEPT !.events =
                           completeEmits(callbacks, @, transcriptManager, id)]
          /\ hist' = logDone(hist, id, branch)
          /\ evaluationTriggered' = (evaluationTriggered \/ branch = "trigger")
          /\ pendingTrigger' = IF branch = "trigger"
                               THEN [pendingTrigger EXCEPT ![shutdownResolve] = @ + 1]
                               ELSE pendingTrigger
          /\ isWaitingForEvaluation' = (isWaitingForEvaluation /\ branch # "resolve")
          /\ promise' = IF branch = "resolve"
                        THEN resolvePromise(promise, shutdownResolve) ELSE promise
          /\ shutdownResolve' = IF branch = "resolve" THEN NULL ELSE shutdownResolve
    /\ UNCHANGED <<starts, isConnected, isIntentionallyStopping, observerVars, managerVars,
                   startPc, stopPc, hasActiveResponse, created, captureVars, callbacks, tlog>>

\* a trigger-evaluation request of call k settles while the call still waits
logSettled(h, k, ok) ==
    IF k # NULL /\ promise[k] = "pending"
    THEN [h EXCEPT !.evalReturned[k] = TRUE, !.trigFailed[k] = @ \/ ~ok]
    ELSE h

\* the then-callback of the trigger-evaluation request sent by the handler
thenReleases(tm) == tm.activeResponseId = NULL /\ isWaitingForEvaluation

TriggerThen(k) ==
    /\ ~MicrotaskPending
    /\ pendingTrigger[k] > 0
    /\ pendingTrigger' = [pendingTrigger EXCEPT ![k] = @ - 1]
    /\ LET rel == thenReleases(transcriptManager)
           h1 == logSettled(hist, k, TRUE)
       IN /\ isWaitingForEvaluation' = (isWaitingForEvaluation /\ ~rel)
          /\ promise' = IF rel THEN resolvePromise(promise, shutdownResolve) ELSE promise
          /\ shutdownResolve' = IF rel THEN NULL ELSE shutdownResolve
          /\ hist' = IF rel THEN logResolve(h1, shutdownResolve) ELSE h1
    /\ UNCHANGED <<starts, isConnected, isIntentionallyStopping, evaluationTriggered, observerVars,
                   managerVars, startPc, stopPc, hasActiveResponse, backendVars, captureVars, uiVars,
                   transcriptManager, tlog>>

\* the catch-callback of that request: a network error
\* (catchReleasesNever: a faulty variant that leaves the wait in place)
catchReleasesNever == FALSE

catchReleases == isWaitingForEvaluation

TriggerCatch(k) ==
    /\ ~MicrotaskPending
    /\ pendingTrigger[k] > 0
    /\ pendingTrigger' = [pendingTrigger EXCEPT ![k] = @ - 1]
    /\ LET rel == catchReleases
           h1 == logSettled(hist, k, FALSE)
       IN /\ isWaitingForEvaluation' = (isWaitingForEvaluation /\ ~rel)
          /\ promise' = IF rel THEN resolvePromise(promise, shutdownResolve) ELSE promise
          /\ shutdownResolve' = IF rel THEN NULL ELSE shutdownResolve
          /\ hist' = IF rel THEN logResolve(h1, shutdownResolve) ELSE h1
    /\ UNCHANGED <<starts, isConnected, isIntentionallyStopping, evaluationTriggered, observerVars,
                   managerVars, startPc, stopPc, hasActiveResponse, backendVars, captureVars, uiVars,
                   transcriptManager, tlog>>

\* ------------------------------------------------------------- stopVoiceChat
FinalizationOrder == <<"stopSession", "disconnect", "reset", "sessionStopped", "disconnected">>

logSteps(h, k, steps) == [h EXCEPT !.log[k] = @ \o steps]

\* the call has ended: what was observed of its wait is dropped
logEnd(h, k) ==
    [h EXCEPT !.waitedId[k] = NULL,
              !.activeDone[k] = FALSE,
              !.evalReturned[k] = FALSE,
              !.evalCreated[k] = {},
              !.evalRespDone[k] = FALSE,
              !.trigFailed[k] = FALSE,
              !.calledAfter[k] = "other"]

\* the statements after `await this.sessionManager.stopSession()` up to the next
\* await: disconnect the transport, clear the tracker, broadcast SESSION_STOPPED
Finalize(k, h) ==
    /\ sockState' = closeSocket(sockState, webSocketManager.websocket)
    /\ UNCHANGED connectPromise
    /\ webSocketManager' = disconnect(webSocketManager)
    /\ isConnected' = FALSE
    /\ transcriptManager' = showTyping(resetTranscript(transcriptManager), FALSE)
    /\ broadcast' = "sessionStopped"
    /\ stopPc' = [stopPc EXCEPT ![k] = "broadcast"]
    /\ hist' = logSteps(h, k, <<"disconnect", "reset", "sessionStopped">>)

\* `await this.sessionManager.stopSession()`: without a session id stopSession
\* returns at once and stopVoiceChat goes on; otherwise POST .../stop is sent
\* (CallStopSessionSkipped: a faulty variant that never calls stopSession)
CallStopSessionSkipped(k, h) ==
    /\ Finalize(k, h)
    /\ UNCHANGED sessionManager

CallStopSession(k, h) ==
    IF sessionManager.sessionId = NULL
    THEN /\ Finalize(k, logSteps(h, k, <<"stopSession">>))
         /\ UNCHANGED sessionManager
    ELSE /\ stopPc' = [stopPc EXCEPT ![k] = "stopFetch"]
         /\ hist' = logSteps(h, k, <<"stopSession">>)
         /\ UNCHANGED <<sockState, connectPromise, webSocketManager, isConnected, transcriptManager,
                        broadcast, sessionManager>>

\* the stopVoiceChat call k has ended by throwing
Threw(k) == stopPc[k] = "done" /\ hist.log[k] # FinalizationOrder

\* the catch block of stopVoiceChat that leaves the flags as they are
StopCatchKeepsFlags(k) ==
    /\ status' = "error"
    /\ stopPc' = [stopPc EXCEPT ![k] = "done"]
    /\ UNCHANGED <<isIntentionallyStopping, isWaitingForEvaluation, evaluationTriggered,
                   shutdownResolve>>

\* the catch block of stopVoiceChat
StopCatch(k) ==
    /\ isIntentionallyStopping' = FALSE
    /\ isWaitingForEvaluation' = FALSE
    /\ evaluationTriggered' = FALSE
    /\ shutdownResolve' = NULL
    /\ status' = "error"
    /\ stopPc' = [stopPc EXCEPT ![k] = "done"]

\* the calls of stopVoiceChat do not overlap: a call is made when no call is in
\* progress, and takes the first frame
MayCallStop(k) == k = 1 /\ \A j \in StopIds : stopPc[j] \in {"idle", "done"}

\* the call, up to its first await
\* a call made while the call before it awaits its evaluation request or its
\* completion promise (the user's stop followed by the cleanup of the UI's unmount)
MayCallStopAgain(k) ==
    /\ k > 1
    /\ stopPc[k] = "idle"
    /\ stopPc[k - 1] \in {"fetch", "wait"}

\* stopVoiceChat() up to its first await, in frame k
stopVoiceChat(k) ==
    /\ ~MicrotaskPending
    /\ status' = "disconnecting"
    /\ isIntentionallyStopping' = TRUE
    /\ LET P == stopAll(AudioPair(audioManager, audio))
       IN audioManager' = P.am /\ audio' = P.au
    /\ LET active == transcriptManager.activeResponseId # NULL
       IN /\ hasActiveResponse' = [hasActiveResponse EXCEPT ![k] = active]
          /\ isWaitingForEvaluation' = TRUE
          /\ evaluationTriggered' = ~active
          /\ promise' = [promise EXCEPT ![k] = "pending"]
          /\ shutdownResolve' = k
          /\ stopPc' = [stopPc EXCEPT ![k] = IF active THEN "wait" ELSE "fetch"]
          /\ hist' = [hist EXCEPT !.waitedId[k] = transcriptManager.activeResponseId,
                                  !.activeDone[k] = FALSE,
                                  !.triggers[k] = IF active THEN 0 ELSE 1,
                                  !.evalReturned[k] = FALSE,
                                  !.evalCreated[k] = {},
                                  !.evalRespDone[k] = FALSE,
                                  !.trigFailed[k] = FALSE,
                                  !.resolveCalls[k] = 0,
                                  !.log[k] = <<>>,
                                  !.nullResolve = FALSE,
                                  !.calledAfter[k] =
                                      IF /\ status = "error"
                                         /\ startPc = "idle"
                                         /\ \A j \in StopIds : stopPc[j] = "idle"
                                      THEN "failedStart"
                                      ELSE "other"]
    /\ pendingTrigger' = [pendingTrigger EXCEPT ![NULL] = @ + pendingTrigger[k], ![k] = 0]
    /\ UNCHANGED <<isConnected, broadcast, errors, sessionManager, webSocketManager,
                   sockState, connectPromise, wire, startPc, starts, backendVars, captureVars, uiVars, transcriptManager, tlog>>

StopVoiceChat(k) == MayCallStop(k) /\ stopVoiceChat(k)

StopVoiceChatAgain(k) == MayCallStopAgain(k) /\ stopVoiceChat(k)

\* the trigger-evaluation request awaited by stopVoiceChat settles (ok: it
\* returned a response of any status; otherwise a network error)
\* (stopTriggerAwaitsAlways: a faulty variant that awaits whatever the tracker says)
stopTriggerAwaitsAlways(ok) == ok

stopTriggerAwaits(ok) == ok /\ transcriptManager.activeResponseId # NULL

StopTriggerReturn(k, ok) ==
    /\ ~MicrotaskPending
    /\ stopPc[k] = "fetch"
    /\ LET h0 == logSettled(hist, k, ok)
       IN IF stopTriggerAwaits(ok)
          THEN \* await completionPromise
               /\ stopPc' = [stopPc EXCEPT ![k] = "wait"]
               /\ hist' = h0
               /\ UNCHANGED <<clientVars, status, sessionManager, webSocketManager,
                              sockState, connectPromise, promise, broadcast, transcriptManager>>
          ELSE IF ok \/ isWaitingForEvaluation
          THEN \* release the wait (a TypeError of the call is caught), then go on
               /\ isWaitingForEvaluation' = FALSE
               /\ promise' = resolvePromise(promise, shutdownResolve)
               /\ shutdownResolve' = NULL
               /\ CallStopSession(k, logResolve(h0, shutdownResolve))
               /\ UNCHANGED <<isIntentionallyStopping, evaluationTriggered, status>>
          ELSE \* the request failed and the wait was released already
               /\ CallStopSession(k, h0)
               /\ UNCHANGED <<isIntentionallyStopping, isWaitingForEvaluation,
                              evaluationTriggered, shutdownResolve, status, promise>>
    /\ UNCHANGED <<starts, errors, audioManager, audio, wire, startPc, hasActiveResponse,
                   pendingTrigger, backendVars, captureVars, uiVars, tlog>>

\* `await completionPromise` goes on once the promise is resolved
StopWaitResume(k) ==
    /\ stopPc[k] = "wait"
    /\ promise[k] = "resolved"
    /\ CallStopSession(k, hist)
    /\ UNCHANGED <<starts, isIntentionallyStopping, isWaitingForEvaluation, evaluationTriggered,
                   shutdownResolve, status, errors, audioManager, audio, wire, startPc,
                   hasActiveResponse, promise, pendingTrigger, backendVars, captureVars, uiVars, tlog>>

\* POST /api/sessions/{id}/stop settles: "ok" or "notOk" (a response; notOk is
\* only logged), then the body is read; "reject": a network error, thrown
StopSessionFetchReturn(k, outcome) ==
    /\ ~MicrotaskPending
    /\ stopPc[k] = "stopFetch"
    /\ IF outcome = "reject"
       THEN /\ StopCatch(k)
            /\ UNCHANGED sessionManager
       ELSE /\ sessionManager' = [sessionManager EXCEPT !.sessionActive = FALSE]
            /\ stopPc' = [stopPc EXCEPT ![k] = "stopJson"]
            /\ UNCHANGED <<isIntentionallyStopping, isWaitingForEvaluation,
                           evaluationTriggered, shutdownResolve, status>>
    /\ hist' = IF outcome = "reject" THEN logEnd(hist, k) ELSE hist
    /\ UNCHANGED <<starts, isConnected, broadcast, errors, webSocketManager, audioManager, audio, wire,
                   sockState, connectPromise, startPc, hasActiveResponse, promise, pendingTrigger,
                   backendVars, captureVars, uiVars, transcriptManager, tlog>>

\* response.json() of the stop request settles; on success SessionManager.reset()
\* runs, stopSession returns and stopVoiceChat goes on to the finalization
StopJsonReturn(k, ok) ==
    /\ ~MicrotaskPending
    /\ stopPc[k] = "stopJson"
    /\ IF ok
       THEN /\ sessionManager' = [sessionId |-> NULL, sessionActive |-> FALSE]
            /\ Finalize(k, hist)
            /\ UNCHANGED <<isIntentionallyStopping, isWaitingForEvaluation,
                           evaluationTriggered, shutdownResolve, status>>
       ELSE /\ StopCatch(k)
            /\ hist' = logEnd(hist, k)
            /\ UNCHANGED <<sessionManager, isConnected, broadcast, webSocketManager,
                           sockState, connectPromise, transcriptManager>>
    /\ UNCHANGED <<starts, errors, audioManager, audio, wire, startPc, hasActiveResponse, promise,
                   pendingTrigger, backendVars, captureVars, uiVars, tlog>>

\* the broadcast of SESSION_STOPPED is done: updateStatus(DISCONNECTED), return
BroadcastReturn(k) ==
    /\ ~MicrotaskPending
    /\ stopPc[k] = "broadcast"
    /\ status' = "disconnected"
    /\ isIntentionallyStopping' = FALSE
    /\ stopPc' = [stopPc EXCEPT ![k] = "done"]
    /\ hist' = logEnd(logSteps(hist, k, <<"disconnected">>), k)
    /\ UNCHANGED <<starts, isConnected, isWaitingForEvaluation, evaluationTriggered,
                   shutdownResolve, broadcast, errors, managerVars, startPc,
                   hasActiveResponse, promise, pendingTrigger, backendVars, captureVars, uiVars,
                   transcriptManager, tlog>>

\* ------------------------------------------------------------- the transport driven directly
\* only the transport and its sockets change
transportStep ==
    UNCHANGED <<clientVars, observerVars, sessionManager, audioManager, audio, wire,
                startPc, stopPc, hasActiveResponse, promise, pendingTrigger,
                backendVars, captureVars, uiVars, hist, trackerVars>>

\* connect(sessionId) constructs a socket
WConnect ==
    /\ starts < MaxSockets
    /\ starts' = starts + 1
    /\ webSocketManager' = [webSocketManager EXCEPT !.websocket = starts + 1]
    /\ sockState' = [sockState EXCEPT ![starts + 1] = "connecting"]
    /\ connectPromise' = [connectPromise EXCEPT ![starts + 1] = "pending"]
    /\ transportStep

WDisconnect ==
    /\ sockState' = closeSocket(sockState, webSocketManager.websocket)
    /\ UNCHANGED connectPromise
    /\ webSocketManager' = disconnect(webSocketManager)
    /\ UNCHANGED starts
    /\ transportStep

\* a message is sent: send(message), cancelResponse(id), sendAudioData(audio)
WSend ==
    /\ wire.frames < MaxFrames
    /\ wire' = logSend(wire, webSocketManager, sockState)
    /\ UNCHANGED <<lifecycleVarsButWire, trackerVars>>

\* handleAudioData: the recorder hands a frame to the client
WHandleAudioData ==
    /\ wire.frames < MaxFrames
    /\ wire' = IF isWebSocketConnected(webSocketManager, sockState)
               THEN logSend(wire, webSocketManager, sockState)
               ELSE logNoSend(wire)
    /\ UNCHANGED <<lifecycleVarsButWire, trackerVars>>

\* ------------------------------------------------------------- the capture processor driven directly
\* the audio thread calls process() with the next block
CProcess(hasInput, len, w) ==
    /\ capture.blocks < MaxBlocks
    /\ LET inputChannel == IF hasInput THEN Block(len, w) ELSE <<>>
           S == process([ap |-> audioProcessor, posted |-> capture.frames],
                        hasInput, inputChannel)
       IN /\ audioProcessor' = S.ap
          /\ capture' = [fed |-> capture.fed \o inputChannel,
                         frames |-> S.posted,
                         blocks |-> capture.blocks + 1]
    /\ UNCHANGED <<clientVars, observerVars, managerVars, controlVars, backendVars, hist,
                   uiVars, trackerVars>>

\* websocket.onmessage of an open socket: handleMessage(event.data)
WHandleMessage(s, data) ==
    /\ sockState[s] = "open"
    /\ Len(wire.received) < MaxMessages
    /\ wire' = handleMessage(wire, data)
    /\ UNCHANGED <<lifecycleVarsButWire, trackerVars>>

\* ------------------------------------------------------------- the audio manager driven directly
\* only the audio manager and its surroundings change
audioStep(P) ==
    /\ audioManager' = P.am
    /\ audio' = P.au
    /\ UNCHANGED <<clientVars, observerVars, sessionManager, webSocketManager, sockState, connectPromise,
                   wire, controlVars, backendVars, captureVars, uiVars, hist, trackerVars>>

AudioNow == AudioPair(audioManager, audio)

AInitialize(outcome) ==
    /\ ~audioManager.audioContext
    /\ audioStep(initialize(AudioNow, outcome))

\* an audio-delta event
AAddAudioChunk ==
    /\ audio.chunks < MaxChunks
    /\ audioStep(addAudioChunk(AudioNow))

\* the audio-done event
AFinalizeAudio ==
    /\ audioManager.audioChunks # <<>>
    /\ audioStep(finalizeAudio(AudioNow))

\* the decoding playAudioChunks call i awaits settles
ADecodeSettled(i, ok) ==
    /\ i \in DOMAIN audio.batches
    /\ audioStep(decoded(AudioNow, i, ok))

\* a setTimeout(processAudioBuffer) callback runs
ATimer ==
    /\ audio.timers > 0
    /\ audioStep(processAudioBuffer(AudioPair(audioManager,
                                              [audio EXCEPT !.timers = @ - 1]), FALSE))

\* a source node ends, by itself or because it was stopped
AOnEnded(source) ==
    /\ source \in audio.playing \cup audio.stopped
    /\ audioStep(onended(AudioNow, source))

AInterrupt == audioStep(interrupt(AudioNow))

AClearQueues == audioStep(clearQueues(AudioNow))

\* ------------------------------------------------------------- the conversation driven directly
\* interruptForUserSpeech() that sends the cancellation whatever the tracker says
interruptCancelsAlways(tm, responseId) == responseId # NULL

\* interruptForUserSpeech(): the cancellation is sent when there is an active
\* response and the tracker's cancelResponse returns true
interruptCancels(tm, responseId) ==
    responseId # NULL /\ cancelResponseResult(tm, responseId)

\* SPEECH_STARTED: handleSpeechStarted, and interruptForUserSpeech when it signals
SpeechStarted ==
    /\ Delivering
    /\ tlog.speechCalls < MaxSpeech
    /\ LET signal == shouldSignal(transcriptManager, tlog.nowTs)
           tm == handleSpeechStarted(transcriptManager, tlog.nowTs)
           responseId == tm.activeResponseId
           P == IF signal THEN interrupt(AudioNow) ELSE AudioNow
       IN /\ transcriptManager' = IF signal THEN cancelResponse(tm, responseId) ELSE tm
          /\ tlog' = logSpeech(tlog, transcriptManager)
          /\ audioManager' = P.am
          /\ audio' = P.au
          /\ wire' = IF signal /\ interruptCancels(tm, responseId)
                     THEN logCancel(wire, webSocketManager, sockState, responseId)
                     ELSE wire
    /\ UNCHANGED <<clientVars, observerVars, sessionManager, webSocketManager, sockState,
                   connectPromise, controlVars, backendVars, captureVars, uiVars, hist>>

\* AUDIO_DELTA of a response: the chunk is handed to the audio manager unless
\* the tracker says the response is cancelled
AudioDelta(id) ==
    /\ Delivering
    /\ id \in created
    /\ audio.chunks < MaxAudioDeltas
    /\ LET P == addAudioChunk(AudioNow)
       IN IF shouldCancelResponse(transcriptManager, id)
          THEN UNCHANGED <<audioManager, audio>>
          ELSE /\ audioManager' = P.am
               /\ audio' = [P.au EXCEPT !.owner = Append(@, id)]
    /\ UNCHANGED <<clientVars, observerVars, sessionManager, webSocketManager, sockState,
                   connectPromise, wire, controlVars, backendVars, captureVars, uiVars, hist,
                   trackerVars>>

\* AUDIO_DONE
AudioDone ==
    /\ Delivering
    /\ audioManager.audioChunks # <<>>
    /\ audioStep(finalizeAudio(AudioNow))

\* ------------------------------------------------------------- specifications
Next ==
    \/ StartVoiceChat
    \/ \E ok \in BOOLEAN : CreateSessionReturn(ok)
    \/ \E o \in {"ok", "noMic", "noWorklet"} : AudioInitReturn(o)
    \/ \E s \in SocketIds : WsOnOpen(s)
    \/ \E s \in SocketIds : WsOnClose(s)
    \/ \E s \in SocketIds : WsOnErrorClose(s)
    \/ \E o \in ContextOutcomes : ContextReturn(o)
    \/ \E o \in {"ok", "badJson", "fail"} : StartSessionReturn(o)
    \/ \E id \in ResponseIds : ResponseCreated(id)
    \/ \E id \in ResponseIds : TranscriptDone(id)
    \/ \E k \in StopIds \cup {NULL} : TriggerThen(k)
    \/ \E k \in StopIds \cup {NULL} : TriggerCatch(k)
    \/ \E k \in StopIds : StopVoiceChat(k)
    \/ \E k \in StopIds, ok \in BOOLEAN : StopTriggerReturn(k, ok)
    \/ \E k \in StopIds : StopWaitResume(k)
    \/ \E k \in StopIds, o \in {"ok", "notOk", "reject"} : StopSessionFetchReturn(k, o)
    \/ \E k \in StopIds, ok \in BOOLEAN : StopJsonReturn(k, ok)
    \/ \E k \in StopIds : BroadcastReturn(k)

Spec == Init /\ [][Next]_vars

\* the tracker's response life cycle: any sequence of calls of its methods
NextTranscript ==
    \/ \E id \in ResponseIds : TStartResponse(id)
    \/ \E id \in ResponseIds : THandleResponseDelta(<<"a">>, id)
    \/ \E id \in ResponseIds : THandleResponseComplete(id)
    \/ \E id \in ResponseIds : TCancelResponse(id)
    \/ TReset

SpecTranscript == Init /\ [][NextTranscript]_vars

\* the accumulation of transcript text: any sequence of startResponse,
\* handleResponseDelta and reset
NextDelta ==
    \/ \E id \in ResponseIds : TStartResponse(id)
    \/ \E id \in ResponseIds, d \in Deltas : THandleResponseDelta(d, id)
    \/ TReset

SpecDelta == Init /\ [][NextDelta]_vars

\* the tracker under speech-started events
NextBargeIn ==
    \/ \E id \in ResponseIds : TStartResponse(id)
    \/ \E id \in ResponseIds : THandleResponseComplete(id)
    \/ \E id \in ResponseIds : TCancelResponse(id)
    \/ TReset
    \/ TSpeechStarted
    \/ TTick

SpecBargeIn == Init /\ [][NextBargeIn]_vars

\* the transport under connect, disconnect, the socket's events and sending
NextTransport ==
    \/ WConnect
    \/ WDisconnect
    \/ \E s \in SocketIds : WsOnOpen(s)
    \/ \E s \in SocketIds : WsOnClose(s)
    \/ \E s \in SocketIds : WsOnErrorClose(s)
    \/ WSend
    \/ WHandleAudioData

SpecTransport == Init /\ [][NextTransport]_vars

\* the audio manager under the events that reach it
NextAudio ==
    \/ \E o \in {"ok", "noMic", "noWorklet"} : AInitialize(o)
    \/ AAddAudioChunk
    \/ AFinalizeAudio
    \/ \E i \in 1..MaxChunks, ok \in BOOLEAN : ADecodeSettled(i, ok)
    \/ ATimer
    \/ \E source \in 1..MaxChunks : AOnEnded(source)
    \/ AInterrupt
    \/ AClearQueues

SpecAudio == Init /\ [][NextAudio]_vars

\* a stopVoiceChat call while the audio of the responses keeps arriving
NextStopAudio ==
    \/ \E o \in {"ok", "noMic", "noWorklet"} : AInitialize(o)
    \/ AAddAudioChunk
    \/ AFinalizeAudio
    \/ \E i \in 1..MaxChunks, ok \in BOOLEAN : ADecodeSettled(i, ok)
    \/ ATimer
    \/ \E source \in 1..MaxChunks : AOnEnded(source)
    \/ AClearQueues
    \/ StopVoiceChat(1)

SpecStopAudio == Init /\ [][NextStopAudio]_vars

\* the client's handlers of the backend's events, with the transport and the
\* playback under them
NextConversation ==
    \/ AInitialize("ok")
    \/ WConnect
    \/ \E s \in SocketIds : WsOnOpen(s)
    \/ \E s \in SocketIds : WsOnClose(s)
    \/ \E id \in ResponseIds : ResponseCreated(id)
    \/ \E id \in ResponseIds : TranscriptDone(id)
    \/ SpeechStarted
    \/ \E id \in ResponseIds : AudioDelta(id)
    \/ AudioDone
    \/ \E i \in 1..MaxAudioDeltas : ADecodeSettled(i, TRUE)
    \/ ATimer
    \/ \E source \in 1..MaxAudioDeltas : AOnEnded(source)
    \/ TTick

SpecConversation == Init /\ [][NextConversation]_vars

\* the transport under connect, the socket's events and inbound messages
NextInbound ==
    \/ WConnect
    \/ WDisconnect
    \/ \E s \in SocketIds : WsOnOpen(s)
    \/ \E s \in SocketIds : WsOnClose(s)
    \/ \E s \in SocketIds : WsOnErrorClose(s)
    \/ \E s \in SocketIds, data \in Payloads : WHandleMessage(s, data)

SpecInbound == Init /\ [][NextInbound]_vars

\* the audio of the responses under barge-in: the events of one connection
NextSuppress ==
    \/ AInitialize("ok")
    \/ (starts = 0 /\ WConnect)
    \/ \E s \in SocketIds : WsOnOpen(s)
    \/ \E id \in ResponseIds : ResponseCreated(id)
    \/ \E id \in ResponseIds : TranscriptDone(id)
    \/ SpeechStarted
    \/ \E id \in ResponseIds : AudioDelta(id)
    \/ AudioDone
    \/ \E i \in 1..MaxAudioDeltas : ADecodeSettled(i, TRUE)
    \/ \E source \in 1..MaxAudioDeltas : AOnEnded(source)

SpecSuppress == Init /\ [][NextSuppress]_vars

\* the capture processor under the blocks the audio thread hands it
NextCapture ==
    \/ \E len \in BlockLens, w \in DOMAIN Waves : CProcess(TRUE, len, w)
    \/ CProcess(FALSE, 0, 1)

SpecCapture == Init /\ [][NextCapture]_vars

\* the UI's observers: registration, user transcripts and AI responses
UserTexts == {<<>>, <<"a">>}

NextObserver ==
    \/ UiRegister
    \/ \E t \in UserTexts : THandleUserTranscript(t)
    \/ \E id \in ResponseIds : TStartResponse(id)
    \/ \E id \in ResponseIds : THandleResponseDelta(<<"a">>, id)
    \/ \E id \in ResponseIds : THandleResponseComplete(id)

SpecObserver == Init /\ [][NextObserver]_vars

\* stopVoiceChat called again while an earlier call is waiting, on an open
\* connection with the backend's response events
NextReentrant ==
    \/ (starts = 0 /\ WConnect)
    \/ \E s \in SocketIds : WsOnOpen(s)
    \/ \E id \in ResponseIds : ResponseCreated(id)
    \/ \E id \in ResponseIds : TranscriptDone(id)
    \/ \E k \in StopIds \cup {NULL} : TriggerThen(k)
    \/ \E k \in StopIds \cup {NULL} : TriggerCatch(k)
    \/ StopVoiceChat(1)
    \/ StopVoiceChatAgain(2)
    \/ \E k \in StopIds, ok \in BOOLEAN : StopTriggerReturn(k, ok)
    \/ \E k \in StopIds : StopWaitResume(k)
    \/ \E k \in StopIds : BroadcastReturn(k)

SpecReentrant == Init /\ [][NextReentrant]_vars

\* the backend completes every response it has created, every request settles
\* and every continuation of a settled promise runs
FairReentrant ==
    /\ \A id \in ResponseIds : WF_vars(TranscriptDone(id))
    /\ \A k \in StopIds \cup {NULL} : WF_vars(TriggerThen(k) \/ TriggerCatch(k))
    /\ \A k \in StopIds : WF_vars(\E ok \in BOOLEAN : StopTriggerReturn(k, ok))
    /\ \A k \in StopIds : WF_vars(StopWaitResume(k))
    /\ \A k \in StopIds : WF_vars(BroadcastReturn(k))

SpecReentrantLive == SpecReentrant /\ FairReentrant

\* one stopVoiceChat call at a time on a connection that may close
NextStopClose ==
    \/ (starts = 0 /\ WConnect)
    \/ \E s \in SocketIds : WsOnOpen(s)
    \/ \E s \in SocketIds : WsOnClose(s)
    \/ \E id \in ResponseIds : ResponseCreated(id)
    \/ \E id \in ResponseIds : TranscriptDone(id)
    \/ \E k \in StopIds \cup {NULL} : TriggerThen(k)
    \/ \E k \in StopIds \cup {NULL} : TriggerCatch(k)
    \/ StopVoiceChat(1)
    \/ \E k \in StopIds, ok \in BOOLEAN : StopTriggerReturn(k, ok)
    \/ \E k \in StopIds : StopWaitResume(k)
    \/ \E k \in StopIds : BroadcastReturn(k)

SpecStopClose == Init /\ [][NextStopClose]_vars

\* as FairReentrant: the events of a response are delivered as long as the
\* connection is there to deliver them
SpecStopCloseLive == SpecStopClose /\ FairReentrant

\* ------------------------------------------------------------- properties of the tracker
\* responseTranscripts.get(id), with "" for an id the map does not hold
storedTranscript(tm, id) ==
    IF id \in DOMAIN tm.responseTranscripts THEN tm.responseTranscripts[id] ELSE <<>>

\* C10: for every response id, after any sequence of handleResponseDelta calls
\* (deltas of other ids and startResponse calls in between), the transcript stored
\* for the id is the concatenation of the id's deltas in arrival order
C10_TranscriptIsConcatenation ==
    \A id \in ResponseIds :
        storedTranscript(transcriptManager, id) = Concat(tlog.arrived[id])

\* two different deltas of one id have arrived, one of another id as well
C10_Witness ==
    \E id \in ResponseIds, other \in ResponseIds :
        /\ other # id
        /\ tlog.arrived[id] = << <<"a">>, <<"b", "a">> >>
        /\ tlog.arrived[other] # <<>>
        /\ storedTranscript(transcriptManager, id) = <<"a", "b", "a">>
        /\ transcriptManager.activeResponseId = other

\* C9: for every response id the finished 'ai' message is emitted at most once
\* whatever the order of handleResponseComplete(id) and cancelResponse(id) calls,
\* exactly once when the first completion found a non-empty transcript, and a
\* completion of an id that is already completed only clears the active id and
\* hides the typing indicator
C9_AiMessageOnce ==
    \A id \in ResponseIds :
        /\ tlog.aiCount[id] <= 1
        /\ (tlog.completeCalls[id] >= 1 /\ tlog.firstNonEmpty[id]) => tlog.aiCount[id] = 1
        /\ id \in transcriptManager.completedResponses =>
              /\ ~emitsAi(transcriptManager, id)
              /\ handleResponseComplete(transcriptManager, id) =
                     [transcriptManager EXCEPT
                         !.activeResponseId = IF @ = id THEN NULL ELSE @,
                         !.typing = "typing-hide"]

\* handleResponseComplete(id) was called twice on a non-empty transcript, after
\* cancelResponse(id)
C9_Witness ==
    \E id \in ResponseIds :
        /\ tlog.completeCalls[id] = 2
        /\ tlog.firstNonEmpty[id]
        /\ tlog.aiCount[id] = 1
        /\ id \in transcriptManager.cancelledResponses

\* ------------------------------------------------------------- properties of the controller
IsPrefix(a, b) == Len(a) <= Len(b) /\ a = SubSeq(b, 1, Len(a))

\* call k of stopVoiceChat is in progress
Stopping(k) == stopPc[k] \notin {"idle", "done"}

\* the stop-session request of call k has been sent
StopRequested(k) == stopPc[k] \in {"stopFetch", "stopJson"}

\* C1: when stopVoiceChat is called while a response is active, the stop-session
\* request is sent only after the transcript-done event of that response was
\* handled, evaluation was triggered, and the evaluation has ended (its response
\* completed, or the trigger request settled with no response to wait for)
C1_StopAfterResponseAndEvaluation ==
    \A k \in StopIds :
        (hasActiveResponse[k] /\ StopRequested(k)) =>
            /\ hist.activeDone[k]
            /\ hist.triggers[k] >= 1
            /\ hist.evalReturned[k] \/ hist.evalRespDone[k]

\* C2: when stopVoiceChat is called with no active response, the trigger-evaluation
\* request is sent in the call itself, before any finalization step, and the call
\* waits after the request returned only if a response was created meanwhile
C2_ImmediateTrigger ==
    \A k \in StopIds :
        (~hasActiveResponse[k] /\ Stopping(k)) =>
            /\ hist.triggers[k] = 1
            /\ stopPc[k] = "fetch" => hist.log[k] = <<>>
            /\ stopPc[k] = "wait" => hist.evalCreated[k] # {}

\* the request returned, no response had been created, the stop request is sent
C2_Witness ==
    \E k \in StopIds :
        /\ ~hasActiveResponse[k]
        /\ StopRequested(k)
        /\ hist.evalReturned[k] /\ ~hist.trigFailed[k]
        /\ hist.evalCreated[k] = {}
        /\ created = {}

\* C3: the finalization steps of a call are taken in the fixed order stop-session
\* call, transport disconnect, tracker reset, broadcast of 'sessionStopped', status
\* 'disconnected', and none is taken before the call's wait is resolved
C3_FinalizationOrder ==
    \A k \in StopIds :
        /\ IsPrefix(hist.log[k], FinalizationOrder)
        /\ hist.log[k] # <<>> => promise[k] = "resolved"

\* a call has taken all five steps, after a wait that an evaluation response ended
C3_Witness ==
    \E k \in StopIds :
        /\ hist.log[k] = FinalizationOrder
        /\ status = "disconnected"
        /\ hasActiveResponse[k]
        /\ sessionManager.sessionId = NULL

\* C4: when a trigger-evaluation request of a call fails with a network error, on
\* either path, the call's wait is released: the call is not left waiting
C4_TriggerFailureReleases ==
    \A k \in StopIds :
        hist.trigFailed[k] =>
            /\ promise[k] = "resolved"
            /\ stopPc[k] # "fetch"
            /\ stopPc[k] = "wait" => MicrotaskPending

\* the request sent by the transcript-done handler failed and the call went on
C4_Witness ==
    \E k \in StopIds :
        /\ hist.trigFailed[k]
        /\ hasActiveResponse[k]
        /\ hist.evalCreated[k] = {}
        /\ StopRequested(k)

\* C5: during one call of stopVoiceChat the trigger-evaluation request is sent at
\* most once; it has been sent exactly when evaluationTriggered is set
C5_TriggerAtMostOnce ==
    \A k \in StopIds :
        /\ hist.triggers[k] <= 1
        /\ Stopping(k) =>
              hist.triggers[k] = IF evaluationTriggered THEN 1 ELSE 0

\* the active response and the evaluation response both completed during the
\* shutdown, with one trigger
C5_Witness ==
    \E k \in StopIds :
        /\ hasActiveResponse[k]
        /\ hist.activeDone[k]
        /\ hist.evalRespDone[k]
        /\ hist.triggers[k] = 1
        /\ StopRequested(k)

\* C6: the resolver of a call's completion promise is invoked exactly once, never
\* twice, and this.shutdownResolve() is never evaluated after it was set to null
C6_ResolvedExactlyOnce ==
    /\ ~hist.nullResolve
    /\ \A k \in StopIds :
          /\ hist.resolveCalls[k] <= 1
          /\ StopRequested(k) => hist.resolveCalls[k] = 1

\* C7: when the transport closes while the session is active and no intentional
\* stop is in progress, the stop sequence is invoked and a 'Connection lost' error
\* is handed to the error observer
C7_ConnectionLossHandled ==
    [][\A s \in SocketIds :
          (/\ sockState[s] = "open"
           /\ sockState'[s] = "closed"
           /\ handleDisconnectionActs(sessionManager, isIntentionallyStopping))
          => (/\ "Connection lost" \in errors'
              /\ isIntentionallyStopping')]_vars

\* C8: after the transport closes while the session is active and no stop is in
\* progress, no connection is opened except by startVoiceChat, and the disconnect
\* notification of the close is delivered to the controller once
C8_NoReconnectOneNotification ==
    /\ \A s \in SocketIds : sockState[s] = "connecting" => startPc = "connect"
    /\ hist.involuntary => hist.closeNotifs <= 1

\* ------------------------------------------------------------- properties of the audio manager
\* playback is at rest: nothing is being decoded, no source plays or is ending
AtRest == audio.batches = <<>> /\ audio.playing = {} /\ audio.stopped = {}

\* C11: as long as nothing has interrupted, cleared or stopped the playback, the
\* sources started so far followed by the queue are exactly the buffers enqueued,
\* in the order of their enqueuing; at most one source plays, and it plays exactly
\* while isPlaying is set, so that a buffer starts only after the previous source's
\* onended; and when playback is at rest every buffer enqueued has been played
C11_FifoNoOverlap ==
    audio.epoch = "clean" =>
        /\ audio.started \o audioManager.audioQueue = audio.enqueued
        /\ Cardinality(audio.playing) <= 1
        /\ audioManager.isPlaying <=> audio.playing # {}
        /\ audio.playing # {} => audio.playing = {audioManager.currentAudioSource}
        /\ AtRest => audio.started = audio.enqueued

\* three buffers were enqueued and played to the end, one after the other
C11_Witness ==
    /\ audio.epoch = "clean"
    /\ Len(audio.enqueued) = 3
    /\ audio.started = audio.enqueued
    /\ AtRest

\* C12: interrupt() while a source plays stops that source and leaves audioQueue
\* and audioChunks empty; from then on (until the queues are emptied again) the
\* sources started followed by the queue are exactly the buffers enqueued since
\* the interrupt, so that the first of them is the next to start; none starts
\* while the stopped source has not ended, and at rest all of them have started
C12_InterruptStartsFresh ==
    [][/\ (AInterrupt /\ audio.playing # {}) =>
              /\ audio.playing = {audioManager.currentAudioSource}
              /\ audio'.playing = {}
              /\ audio.playing \subseteq audio'.stopped
              /\ audioManager'.currentAudioSource = NULL
              /\ audioManager'.audioQueue = <<>>
              /\ audioManager'.audioChunks = <<>>
       /\ audio'.epoch = "interrupted" =>
              /\ audio'.started \o audioManager'.audioQueue = audio'.enqueued
              /\ Cardinality(audio'.playing) <= 1
              /\ audio'.stopped # {} => audio'.started = <<>>
              /\ AtRest' => audio'.started = audio'.enqueued]_vars

\* a source was interrupted, and two buffers enqueued afterwards have been played
C12_Witness ==
    /\ audio.epoch = "interrupted"
    /\ audio.cut # NULL
    /\ Len(audio.enqueued) = 2
    /\ audio.started = audio.enqueued
    /\ AtRest

\* C18: the stopVoiceChat call itself (before its first await) turns recording
\* off, releases the stream and the context, stops the current source and
\* empties audioChunks and audioQueue; and while the call is in progress and
\* the audio has not been initialized anew, no step starts a source, whatever
\* audio events arrive
C18_SilentDuringStop ==
    [][/\ StopVoiceChat(1) =>
              /\ ~audioManager'.isRecording
              /\ ~audioManager'.mediaStream
              /\ ~audioManager'.audioContext
              /\ ~audioManager'.isPlaying
              /\ audioManager'.currentAudioSource = NULL
              /\ audio'.playing = {}
              /\ audioManager'.audioChunks = <<>>
              /\ audioManager'.audioQueue = <<>>
       /\ (stopPc[1] \notin {"idle", "done"} /\ ~audioManager'.audioContext) =>
              /\ audio'.playing = {}
              /\ audio'.started = <<>>
              /\ audioManager'.currentAudioSource = NULL]_vars

\* the call is in progress; it stopped a source that was playing; since then a
\* buffer has been decoded and chunks have arrived, and nothing plays
C18_Witness ==
    /\ stopPc[1] \notin {"idle", "done"}
    /\ audio.epoch = "stopped"
    /\ audio.stopped # {}
    /\ audio.enqueued # <<>>
    /\ audioManager.audioChunks # <<>>
    /\ audio.playing = {}

\* ------------------------------------------------------------- properties of the barge-in debounce
\* signals i and j (i before j) lie at least a cooldown apart
Apart(i, j) == tlog.signals[j] - tlog.signals[i] >= BargeInCooldownMs

\* C13 (as stated): of any two speech-started events less than
\* BargeInCooldownMs apart at most one makes handleSpeechStarted return true,
\* whatever happens to the tracker between them
C13_AtMostOneSignalPerCooldown ==
    \A i, j \in DOMAIN tlog.signals : i < j => Apart(i, j)

\* C13 (amended): of any two speech-started events less than BargeInCooldownMs
\* apart with no reset of the tracker between them, at most one makes
\* handleSpeechStarted return true
C13_DebounceBetweenResets ==
    \A i, j \in DOMAIN tlog.signals : (tlog.resetAt < i /\ i < j) => Apart(i, j)

\* a speech-started event was refused within the cooldown of the signal before
\* it, although the active response could be interrupted
C13_Witness ==
    /\ tlog.speechCalls = 2
    /\ tlog.resetAt = 0
    /\ Len(tlog.signals) = 1
    /\ transcriptManager.lastBargeInTime = tlog.signals[1]
    /\ tlog.nowTs - transcriptManager.lastBargeInTime < BargeInCooldownMs
    /\ shouldSignalNoCooldown(transcriptManager, tlog.nowTs)

\* ------------------------------------------------------------- properties of the transport
\* the manager holds a handle and the handle's socket is open
TransportOpen ==
    webSocketManager.websocket # NULL /\ sockState[webSocketManager.websocket] = "open"

\* C20: a call of send transmits its message on the handle's socket and returns
\* true exactly when a handle exists and its socket is open, and otherwise
\* returns false and transmits nothing; no other step transmits anything, so a
\* message that was not transmitted when it was produced is never transmitted
C20_SendOnlyWhenOpen ==
    [][/\ wire'.returned # "none" /\ wire'.frames # wire.frames =>
              /\ wire'.returned = IF TransportOpen THEN "true" ELSE "false"
              /\ TransportOpen =>
                     wire'.sent = Append(wire.sent,
                                         <<webSocketManager.websocket, wire'.frames>>)
       /\ ~(TransportOpen /\ wire'.frames # wire.frames) => wire'.sent = wire.sent]_vars

\* the first message was produced before the socket was open and was dropped,
\* the second was transmitted, the socket went away and the third call of send
\* returned false: only the second has been transmitted
C20_Witness ==
    /\ wire.frames = 3
    /\ wire.sent = << <<1, 2>> >>
    /\ wire.returned = "false"
    /\ ~TransportOpen

\* ------------------------------------------------------------- properties of startVoiceChat
\* the socket of the current startVoiceChat call has been opened
Opened == starts \in SocketIds /\ sockState[starts] \in {"open", "closing", "closed"}

\* C14: every step of startVoiceChat is taken from the step before it, after that
\* one succeeded: audio initialization after the session was created, connect
\* after audio capture runs, the context lookup after the socket opened, the
\* start request after the lookup and never before the socket opened; the
\* session becomes active only when the start request is accepted, 'sessionActive'
\* is broadcast only then, and status 'connected' is reported in the same step
C14_StartOrder ==
    [][/\ (startPc' = "createSession" /\ startPc # startPc') => startPc = "idle"
       /\ (startPc' = "audioInit" /\ startPc # startPc') =>
              startPc = "createSession" /\ sessionManager'.sessionId # NULL
       /\ (startPc' = "connect" /\ startPc # startPc') =>
              /\ startPc = "audioInit"
              /\ audioManager'.isRecording
              /\ webSocketManager'.websocket = starts
              /\ sockState'[starts] = "connecting"
       /\ (startPc' = "context" /\ startPc # startPc') =>
              startPc = "connect" /\ sockState'[starts] = "open"
       /\ (startPc' = "startSession" /\ startPc # startPc') =>
              startPc = "context" /\ Opened
       /\ (sessionManager'.sessionActive /\ ~sessionManager.sessionActive) =>
              startPc = "startSession"
       /\ (broadcast' = "sessionActive" /\ broadcast # broadcast') =>
              /\ startPc = "startSession"
              /\ sessionManager'.sessionActive
              /\ status' = "connected"
       /\ (status' = "connected" /\ status # status') =>
              broadcast' = "sessionActive" /\ startPc = "startSession"]_vars

\* a startVoiceChat call has gone through all its steps
C14_Witness ==
    /\ starts = 1
    /\ startPc = "idle"
    /\ status = "connected"
    /\ broadcast = "sessionActive"
    /\ sessionManager.sessionActive
    /\ sessionManager.sessionId # NULL
    /\ audioManager.isRecording
    /\ Opened

\* C15: however getLeetCodeContext() goes, it returns to startVoiceChat (a
\* context, or null when anything failed or nothing was found), and the step
\* after the lookup sends the start request with that context instead of
\* failing the call; a start request that carries a null context and is
\* accepted makes the session active like any other
C15_ContextBestEffort ==
    [][/\ (startPc = "context" /\ sessionManager.sessionId # NULL) =>
              \A o \in ContextOutcomes :
                  ContextReturn(o) =>
                      /\ startPc' = "startSession"
                      /\ status' = status
                      /\ hist'.startContext = IF o = "response" THEN "context" ELSE "null"
       /\ (startPc = "startSession" /\ hist.startContext = "null"
           /\ StartSessionReturn("ok")) =>
              /\ sessionManager'.sessionActive
              /\ broadcast' = "sessionActive"
              /\ status' = "connected"]_vars

\* the start request is in flight with a null context
C15_Witness ==
    /\ startPc = "startSession"
    /\ hist.startContext = "null"
    /\ status = "connecting"

\* the step ends the startVoiceChat call without success
StartFails == startPc # "idle" /\ startPc' = "idle" /\ status' # "connected"

\* C16: a step in which startVoiceChat fails reports status 'error', takes none
\* of the later steps, does not broadcast 'sessionActive' and does not mark the
\* session active
C16_FailedStartNotActive ==
    [][StartFails =>
           /\ status' = "error"
           /\ broadcast' = "sessionActive" => broadcast = "sessionActive"
           /\ sessionManager'.sessionActive => sessionManager.sessionActive
           /\ sessionManager'.sessionId = sessionManager.sessionId
           /\ webSocketManager'.websocket = webSocketManager.websocket]_vars

\* ------------------------------------------------------------- properties of stopVoiceChat after a failure
\* C17: the step that ends a stopVoiceChat call made after a failed
\* startVoiceChat leaves the microphone and the audio context released, the
\* transport handle cleared and its socket neither open nor opening, the
\* session id cleared, and the status 'disconnected'
C17_StopCleansFailedStart ==
    [][\A k \in StopIds :
           (stopPc[k] # "done" /\ stopPc'[k] = "done"
            /\ hist.calledAfter[k] = "failedStart") =>
               /\ ~audioManager'.mediaStream
               /\ ~audioManager'.audioContext
               /\ ~audioManager'.isRecording
               /\ webSocketManager'.websocket = NULL
               /\ \A s \in SocketIds : sockState'[s] \notin {"connecting", "open"}
               /\ sessionManager'.sessionId = NULL
               /\ status' = "disconnected"]_vars

C21_DisconnectIdempotent ==
    [][WDisconnect =>
           /\ webSocketManager'.websocket = NULL
           /\ ~webSocketManager'.isConnected
           /\ webSocketManager.websocket = NULL => sockState' = sockState
           /\ \A s \in SocketIds :
                  s # webSocketManager.websocket => sockState'[s] = sockState[s]
           /\ webSocketManager.websocket # NULL =>
                  sockState'[webSocketManager.websocket] \notin {"connecting", "open"}
           /\ disconnect(webSocketManager') = webSocketManager'
           /\ closeSocket(sockState', webSocketManager'.websocket) = sockState']_vars

\* disconnect() was called on an open connection: the handle is gone and the
\* socket is in its closing handshake
C21_Witness ==
    /\ webSocketManager.websocket = NULL
    /\ ~webSocketManager.isConnected
    /\ \E s \in SocketIds : sockState[s] = "closing"
    /\ wire.sent # <<>>

\* C22: the promise of connect() is resolved once its socket has opened and
\* rejected when its socket closes without having opened, so it is settled
\* whenever the socket has reached an outcome; it is pending only while the
\* socket is still opening; and once settled it never changes, whatever error
\* or close follows
C22_ConnectSettles ==
    [][\A s \in SocketIds :
           /\ sockState'[s] \in {"open", "closing"} => connectPromise'[s] = "resolved"
           /\ sockState'[s] = "closed" => connectPromise'[s] \in {"resolved", "rejected"}
           /\ (sockState[s] = "connecting" /\ sockState'[s] = "open") =>
                  connectPromise'[s] = "resolved"
           /\ (sockState[s] \in {"connecting", "closingUnopened"}
               /\ sockState'[s] = "closed") => connectPromise'[s] = "rejected"
           /\ connectPromise'[s] = "pending" =>
                  sockState'[s] \in {"connecting", "closingUnopened"}
           /\ connectPromise[s] \in {"resolved", "rejected"} =>
                  connectPromise'[s] = connectPromise[s]]_vars

\* a connection opened, carried a message and was closed: its promise is
\* still resolved
C22_Witness ==
    \E s \in SocketIds :
        /\ sockState[s] = "closed"
        /\ connectPromise[s] = "resolved"
        /\ \E i \in 1..Len(wire.sent) : wire.sent[i][1] = s

\* ------------------------------------------------------------- properties of the capture processor
\* C23: every frame posted holds exactly 1200 samples; the frames are the
\* samples fed, in order, none lost and none repeated, and the samples not yet
\* posted are the ones held in the buffer; the index is in 0..1199 between
\* calls; every output sample is in the signed 16-bit range, an input of 1.0 or
\* more gives 32767, an input of -1.0 or less gives -32768, and an input in
\* between gives its value scaled by 32767 (by 32768 below zero), rounded
\* towards zero
C23_FramesExact ==
    LET n == Len(capture.frames)
    IN /\ \A k \in 1..n : Len(capture.frames[k]) = 1200
       /\ audioProcessor.bufferIndex \in 0..1199
       /\ Len(capture.fed) = n * 1200 + audioProcessor.bufferIndex
       /\ \A k \in 1..n : \A j \in 1..1200 :
              LET x == capture.fed[(k - 1) * 1200 + j]
                  y == capture.frames[k][j]
              IN /\ y \in -32768..32767
                 /\ x >= One => y = 32767
                 /\ x <= -One => y = -32768
                 /\ (x >= 0 /\ x < One) => y = (x * 32767) \div One
                 /\ (x < 0 /\ x > -One) => y = -(((-x) * 32768) \div One)
       /\ \A j \in 1..audioProcessor.bufferIndex :
              audioProcessor.buffer[j] = capture.fed[n * 1200 + j]

\* three calls (1100, 128 and 2500 samples in some order, some beyond [-1, 1])
\* have produced three frames and left 128 samples in the buffer
C23_Witness ==
    /\ capture.blocks = 3
    /\ Len(capture.frames) = 3
    /\ audioProcessor.bufferIndex = 128
    /\ \E i \in 1..Len(capture.fed) : capture.fed[i] > One
    /\ \E i \in 1..Len(capture.fed) : capture.fed[i] < -One

\* ------------------------------------------------------------- properties of the chunk buffer
\* C24: while chunks that the audio-done signal found in the chunk buffer are
\* still there, their processing is on its way: a batch is being decoded or a
\* processAudioBuffer timer is pending; so no chunk is left in the buffer with
\* nothing to move it
C24_DoneFlushesBuffer ==
    audio.leftover => (audio.batches # <<>> \/ audio.timers > 0)

\* ------------------------------------------------------------- properties of the barge-in wiring
\* the response-cancel message for id is transmitted in this step
CancelSent(id) ==
    /\ wire'.sent # wire.sent
    /\ <<wire'.frames, id>> \in wire'.cancels

\* C25: in the step in which the tracker signals an interrupt, the playing
\* source is stopped and the audio queues are emptied, and, if the active
\* response is not completed, a response-cancel message with its id is
\* transmitted and the id is marked cancelled; and an id is marked cancelled
\* only in a step that transmits a response-cancel message for it
C25_InterruptCancelsOnWire ==
    [][/\ Len(tlog'.signals) > Len(tlog.signals) =>
              /\ audio'.playing = {}
              /\ audioManager'.currentAudioSource = NULL
              /\ audioManager'.audioQueue = <<>>
              /\ audioManager'.audioChunks = <<>>
              /\ transcriptManager.activeResponseId
                     \notin transcriptManager.completedResponses =>
                         /\ transcriptManager.activeResponseId
                                \in transcriptManager'.cancelledResponses
                         /\ CancelSent(transcriptManager.activeResponseId)
       /\ \A id \in ResponseIds :
              (id \in transcriptManager'.cancelledResponses
               /\ id \notin transcriptManager.cancelledResponses) => CancelSent(id)]_vars

\* ------------------------------------------------------------- properties of the inbound channel
\* the well-formed data
GoodPayloads ==
    {<<"{", "type", ":", "response.created", "}">>,
     <<"{", "type", ":", "speech_started", "}">>}

\* the events of the well-formed data among msgs, in order
RECURSIVE EventsOf(_)
EventsOf(msgs) ==
    IF msgs = <<>> THEN <<>>
    ELSE IF Head(msgs) \in GoodPayloads
    THEN <<[key |-> "type", val |-> Head(msgs)[4]]>> \o EventsOf(Tail(msgs))
    ELSE EventsOf(Tail(msgs))

\* C26: the events handed to the handler are exactly the events of the
\* well-formed messages received, in the order received, each with the type
\* it carried: a message that does not parse is not handed to the handler and
\* does not stop the later ones; no exception leaves handleMessage; and the
\* step that handles a message that does not parse changes nothing of the
\* transport, the session or the client
C26_BadMessageDropped ==
    [][/\ wire'.dispatched = EventsOf(wire'.received)
       /\ ~wire'.escaped
       /\ (wire'.received # wire.received
           /\ wire'.received[Len(wire'.received)] \notin GoodPayloads) =>
              /\ wire'.dispatched = wire.dispatched
              /\ UNCHANGED <<webSocketManager, sockState, connectPromise, sessionManager,
                             clientVars, observerVars, transcriptManager>>]_vars

\* a well-formed message, then one cut short, then a well-formed one: the
\* handler has received the first and the third
C26_Witness ==
    /\ Len(wire.received) = 3
    /\ wire.received[1] \in GoodPayloads
    /\ wire.received[2] = <<"{", "type", ":">>
    /\ wire.received[3] \in GoodPayloads
    /\ wire.dispatched = <<[key |-> "type", val |-> wire.received[1][4]],
                           [key |-> "type", val |-> wire.received[3][4]]>>

\* ------------------------------------------------------------- properties of the shutdown wait
\* C27: a transcript-done event releases the wait of a stopVoiceChat call only
\* if it is the completion of an evaluation response, that is, of a response
\* created during the call after its trigger-evaluation request was sent
C27_OnlyEvaluationReleases ==
    [][\A id \in ResponseIds : \A k \in StopIds :
           (TranscriptDone(id) /\ hist'.resolveCalls[k] > hist.resolveCalls[k]) =>
               id \in hist.evalCreated[k]]_vars

\* ------------------------------------------------------------- properties of the audio of cancelled responses
\* the chunks the audio manager holds or plays
ChunksHeld ==
    {audioManager.audioChunks[i] : i \in 1..Len(audioManager.audioChunks)}
    \cup {audioManager.audioQueue[i] : i \in 1..Len(audioManager.audioQueue)}
    \cup UNION {{audio.batches[b][i] : i \in 1..Len(audio.batches[b])} :
                   b \in 1..Len(audio.batches)}
    \cup audio.playing

\* C28: a cancelled response stays cancelled; a chunk is added to the chunk
\* buffer only by an audio-delta event whose response is not cancelled at
\* that moment, whatever the cancelling flag says; and the audio manager
\* holds and plays only chunks added so
C28_CancelledAudioDropped ==
    [][/\ transcriptManager.cancelledResponses \subseteq transcriptManager'.cancelledResponses
       /\ audio'.chunks > audio.chunks =>
              /\ Len(audio'.owner) = Len(audio.owner) + 1
              /\ audio'.owner[Len(audio'.owner)] \notin transcriptManager.cancelledResponses
       /\ ChunksHeld' \subseteq 1..Len(audio'.owner)]_vars

\* the first response was cancelled, a second one has been created (the
\* cancelling flag is cleared) and only audio of the second has been added
C28_Witness ==
    /\ 1 \in transcriptManager.cancelledResponses
    /\ transcriptManager.activeResponseId = 2
    /\ ~transcriptManager.isCancelling
    /\ audio.owner = <<2, 2>>
    /\ audio.playing # {}

\* ---------------------------------------------------------------------------
\* Barge-in on a response that is already completed: the tracker driven
\* directly (startResponse does not look at completedResponses, so a completed
\* id can be the active one), the speech events through the controller
NextCancel ==
    \/ AInitialize("ok")
    \/ (starts = 0 /\ WConnect)
    \/ \E s \in SocketIds : WsOnOpen(s)
    \/ \E id \in ResponseIds : TStartResponse(id)
    \/ \E id \in ResponseIds : THandleResponseComplete(id)
    \/ SpeechStarted
    \/ TTick

SpecCancel == Init /\ [][NextCancel]_vars

\* C29: cancelResponse(id) on an id of the completed set returns false and
\* leaves the tracker as it is, and a barge-in whose active response is
\* completed changes neither the cancelled set nor the cancelling flag and
\* puts nothing on the wire.
C29_CompletedCancelNoEffect ==
    [][/\ \A id \in transcriptManager.completedResponses :
              /\ ~cancelResponseResult(transcriptManager, id)
              /\ cancelResponse(transcriptManager, id) = transcriptManager
       /\ (/\ Len(tlog'.signals) > Len(tlog.signals)
           /\ transcriptManager.activeResponseId \in transcriptManager.completedResponses) =>
              /\ transcriptManager'.cancelledResponses = transcriptManager.cancelledResponses
              /\ transcriptManager'.isCancelling = transcriptManager.isCancelling
              /\ wire' = wire]_vars

C29_Witness ==
    /\ tlog.signals # <<>>
    /\ transcriptManager.activeResponseId # NULL
    /\ transcriptManager.activeResponseId \in transcriptManager.completedResponses
    /\ transcriptManager.cancelledResponses = {}
    /\ ~transcriptManager.isCancelling
    /\ wire.cancels = {}
    /\ \E s \in SocketIds : sockState[s] = "open"

\* C30: when RESPONSE_CREATED arrives while the active response is not in the
\* completed set, then after the handler the new response is the only active
\* one, audioChunks and audioQueue are empty, and the audio manager holds no
\* chunk of the previous response any more: none is playing and none is in a
\* batch being decoded, from where it would start playing later.
C30_NewResponseSilencesPrevious ==
    [][\A id \in ResponseIds :
           (/\ ResponseCreated(id)
            /\ transcriptManager.activeResponseId # NULL
            /\ transcriptManager.activeResponseId
                   \notin transcriptManager.completedResponses) =>
               /\ transcriptManager'.activeResponseId = id
               /\ audioManager'.audioChunks = <<>>
               /\ audioManager'.audioQueue = <<>>
               /\ \A c \in ChunksHeld' :
                      audio'.owner[c] # transcriptManager.activeResponseId]_vars

\* ------------------------------------------------------------- properties of the decoding batches
\* C31: interrupt() leaves nothing of the audio received before it in the audio
\* manager: no source plays, both queues are empty, and no batch is left in
\* playAudioChunks, whose buffers would be pushed to audioQueue and played
\* when their decoding settles after the interrupt.
C31_InterruptDropsDecodingBatch ==
    [][AInterrupt => /\ audio'.playing = {}
                     /\ audioManager'.audioQueue = <<>>
                     /\ audioManager'.audioChunks = <<>>
                     /\ audio'.batches = <<>>]_vars

\* C32: at most one batch is being decoded at any time, and the buffers enter
\* the playback queue in the order in which their chunks arrived (chunks are
\* numbered in the order of arrival).
C32_QueuedInArrivalOrder ==
    /\ Len(audio.batches) <= 1
    /\ \A i, j \in 1..Len(audio.enqueued) : i < j => audio.enqueued[i] < audio.enqueued[j]

\* ------------------------------------------------------------- properties of the finished message
\* C33: whenever handleResponseComplete(id) emits the finished 'ai' message, its
\* text is the concatenation of the deltas that arrived for that same id.
C33_FinishedTextIsOwn ==
    [][\A id \in ResponseIds :
           (THandleResponseComplete(id) /\ emitsAi(transcriptManager, id)) =>
               finalTranscript(transcriptManager, id) = Concat(tlog.arrived[id])]_vars

\* ------------------------------------------------------------- properties of the observers
\* the transcript events of the UI's onTranscript observer
TranscriptEvents == SelectSeq(uiLog.events, LAMBDA e : e[1] = "transcript")

\* C34: once the UI has registered its onTranscript observer on the client,
\* every completion of a non-empty user transcript and every completion of an
\* AI response with a non-empty transcript hands that observer a transcript
\* event with the type and the text.
C34_TranscriptDelivered ==
    [][callbacks.client.onTranscript = "ui" =>
           /\ \A t \in UserTexts :
                  (THandleUserTranscript(t) /\ t # <<>>) =>
                      TranscriptEvents' = Append(TranscriptEvents, <<"transcript", "user", t>>)
           /\ \A id \in ResponseIds :
                  (THandleResponseComplete(id) /\ emitsAi(transcriptManager, id)) =>
                      TranscriptEvents' =
                          Append(TranscriptEvents,
                                 <<"transcript", "ai",
                                   finalTranscript(transcriptManager, id)>>)]_vars

\* ------------------------------------------------------------- properties of the barge-in trigger
\* C35: a SPEECH_STARTED event that arrives outside the cooldown window while a
\* source plays or buffers wait in the playback queue interrupts the playback:
\* after the handler no source plays and the queues are empty.
C35_SpeechInterruptsPlayback ==
    [][(/\ SpeechStarted
        /\ ~(tlog.nowTs - transcriptManager.lastBargeInTime < BargeInCooldownMs)
        /\ (audio.playing # {} \/ audioManager.audioQueue # <<>>)) =>
           /\ audio'.playing = {}
           /\ audioManager'.currentAudioSource = NULL
           /\ audioManager'.audioQueue = <<>>
           /\ audioManager'.audioChunks = <<>>]_vars

\* ------------------------------------------------------------- properties of the connection flag
\* C36: the close event of a socket that disconnect() has given up (it is
\* closing and is not the current handle), arriving while the socket of the
\* current handle is open, leaves isConnected set, so that isWebSocketConnected()
\* stays true and the microphone frames of the new session are sent.
C36_StaleCloseKeepsFlag ==
    [][\A s \in SocketIds :
           (/\ WsOnClose(s)
            /\ sockState[s] = "closing"
            /\ TransportOpen
            /\ webSocketManager.isConnected) =>
               /\ TransportOpen'
               /\ webSocketManager'.isConnected]_vars

\* ------------------------------------------------------------- properties of overlapping stops
\* C37: every stopVoiceChat call that is in progress ends, also when another
\* call was made while it was waiting (the backend completes every response it
\* has created and every request settles).
C37_EveryStopReturns ==
    \A k \in StopIds : (stopPc[k] \notin {"idle", "done"}) ~> (stopPc[k] \in {"idle", "done"})

\* ------------------------------------------------------------- properties of the session requests
\* a trigger-evaluation request is sent in this step: by stopVoiceChat when
\* there is no active response, or by the transcript-done handler
TriggerSent ==
    \/ \E k \in StopIds : stopPc'[k] = "fetch" /\ stopPc[k] # "fetch"
    \/ \E k \in StopIds : stopPc'[k] = stopPc[k] /\ hist'.triggers[k] > hist.triggers[k]

\* C38: the start request, the trigger-evaluation request and the stop request
\* are sent only while the session manager holds a session id.
C38_RequestsNeedSession ==
    [][/\ (startPc' = "startSession" /\ startPc # "startSession") =>
              sessionManager.sessionId # NULL
       /\ (\E k \in StopIds : stopPc'[k] = "stopFetch" /\ stopPc[k] # "stopFetch") =>
              sessionManager.sessionId # NULL
       /\ TriggerSent => sessionManager.sessionId # NULL]_vars

\* ------------------------------------------------------------- properties of the wait's end
\* C39: a stopVoiceChat call that awaits its evaluation request or its
\* completion promise reaches its finalization (the stop-session call) or ends,
\* also when the connection closes during the wait and the transcript-done
\* event it waits for can no longer arrive.
C39_StopReachesFinalization ==
    \A k \in StopIds :
        (stopPc[k] \in {"fetch", "wait"}) ~> (hist.log[k] # <<>> \/ stopPc[k] = "done")

\* ------------------------------------------------------------- properties of the stop's end
\* C40: the step that ends a stopVoiceChat call, by returning or by throwing,
\* while no startVoiceChat call is in progress, leaves the transport handle
\* cleared, its socket neither open nor opening, and the session not marked
\* active.
C40_StopEndsClean ==
    [][\A k \in StopIds :
           (stopPc[k] # "done" /\ stopPc'[k] = "done" /\ startPc = "idle") =>
               /\ webSocketManager'.websocket = NULL
               /\ ~webSocketManager'.isConnected
               /\ \A s \in SocketIds : sockState'[s] \notin {"connecting", "open"}
               /\ ~sessionManager'.sessionActive]_vars

====
